---- MODULE Spec2Model ----
(***************************************************************************)
(* reminders-mcp-server: the EventKit gateway (RemindersEventKitHelper),   *)
(* the TypeScript service that builds and launches it (eventkit.ts), and   *)
(* the tool handlers that call the service (tools/lists.ts).               *)
(*                                                                         *)
(* Five specifications share the definitions below:                        *)
(*   SpecQuery  - listReminders / countReminders / reminders_list over a   *)
(*                store drawn from a bounded set, and a paging client;     *)
(*   SpecSearch - reminders_search and the reading operations over a store *)
(*                of reminders whose names contain one another's;          *)
(*   Spec       - gateway invocations, one after another, that change the  *)
(*                store and read it back;                                  *)
(*   SpecLists  - createList / deleteList calls whose gateways overlap;    *)
(*   SpecHelper - concurrent runHelper calls in one Node process: the      *)
(*                helper build, the launch and the envelope codec.         *)
(***************************************************************************)
EXTENDS Integers, Sequences, FiniteSets, TLC

VARIABLES
    lists,        \* EKEventStore.calendars(for: .reminder): sequence of [id, title]
    reminders,    \* the reminders in the order the store hands them over
    authStatus,   \* EKEventStore.authorizationStatus(for: .reminder)
    clock,        \* the wall clock, Date()
    timeZone,     \* the time zone of Calendar.current: [offset, dstUntil]
    response,     \* the last gateway invocation: its operation, payload, envelope, exit status
    toolOutput,   \* the last tool handler's output
    pager,        \* a client reading listReminders page by page
    srcMtime,     \* modification time of RemindersEventKitHelper.swift (Absent: no such file)
    binary,       \* the file at helperBinaryPath: Absent, or <<[mtime, complete]>>
    buildPromise, \* eventkit.ts: let buildPromise (0: null, else the build it belongs to)
    build,        \* every build started (the async body of ensureHelperBuilt): its position
    calls,        \* every runHelper call of the process: its position and outcome
    fsClock       \* the file system's clock

vars == <<lists, reminders, authStatus, clock, timeZone, response, toolOutput, pager,
          srcMtime, binary, buildPromise, build, calls, fsClock>>

storeVars == <<lists, reminders, authStatus, clock, timeZone>>
helperVars == <<srcMtime, binary, buildPromise, build, calls, fsClock>>
queryVars == <<response, toolOutput, pager>>

----------------------------------------------------------------------------
(* Bounds of the model *)

MaxReminders == 3
TicksPerDay == 2
MaxCalls == 2
MaxTime == 2

----------------------------------------------------------------------------
(* Optionals (Swift T?, TypeScript T | undefined) *)

Absent == <<>>
Some(v) == <<v>>
Get(o) == o[1]

Max(a, b) == IF a >= b THEN a ELSE b
Min(a, b) == IF a <= b THEN a ELSE b

(* Strings whose characters matter (reminder titles, search queries) are
   sequences of character codes; list names and messages are compared only
   for equality and are TLA+ strings. *)
StrA == <<65>>
Stra == <<97>>
StrB == <<66>>
Strb == <<98>>
StrAb == <<65, 98>>
StrbA == <<98, 65>>
StrEmpty == <<>>
StrBlank == <<32>>

IsUpper(c) == c >= 65 /\ c <= 90
LowerChar(c) == IF IsUpper(c) THEN c + 32 ELSE c
Lowercased(s) == [i \in 1..Len(s) |-> LowerChar(s[i])]

RECURSIVE LexLess(_, _)
LexLess(s, t) ==
    IF t = <<>> THEN FALSE
    ELSE IF s = <<>> THEN TRUE
    ELSE IF Head(s) # Head(t) THEN Head(s) < Head(t)
    ELSE LexLess(Tail(s), Tail(t))

(* lhs.localizedCaseInsensitiveCompare(rhs) == .orderedAscending *)
CaseInsensitiveAscending(l, r) == LexLess(Lowercased(l), Lowercased(r))

----------------------------------------------------------------------------
(* Envelopes: a Swift throw becomes the failure envelope the top-level
   do/catch prints, a return the success envelope. *)

NoResult == "none"
Failure(msg) == [ok |-> FALSE, error |-> msg, result |-> NoResult]
Success(r) == [ok |-> TRUE, error |-> "", result |-> r]

----------------------------------------------------------------------------
(* Dates.  An instant is a number of ticks since the epoch, UTC;
   DateComponents hold a day and, for a timed date, the tick within the day,
   both in the time zone of Calendar.current. *)

DistantPast == -1

(* A time zone is its standard offset from UTC, in ticks, and, where it has
   daylight saving time, the instant at which that ends: before it the clocks
   are one tick ahead. *)
FixedZone(offset) == [offset |-> offset, dstUntil |-> Absent]
DstZone(offset, until) == [offset |-> offset, dstUntil |-> Some(until)]
UTC == FixedZone(0)

InDst(t) == timeZone.dstUntil # Absent /\ t < Get(timeZone.dstUntil)
OffsetAt(t) == timeZone.offset + (IF InDst(t) THEN 1 ELSE 0)
LocalTime(t) == t + OffsetAt(t)

(* Calendar.current.date(from: components): the instant whose local time the
   components are; where the clocks were set back and two instants have that
   local time, the earlier one. *)
DateFromComponents(c) ==
    LET local == c.day * TicksPerDay + (IF c.tod = Absent THEN 0 ELSE Get(c.tod))
        daylight == local - timeZone.offset - 1
    IN  IF InDst(daylight) THEN daylight ELSE local - timeZone.offset

(* Calendar.current.dateComponents([.year, .month, .day, .hour, .minute,
   .second], from: date) and dateComponents([.year, .month, .day], from:) *)
TimedComponents(date) ==
    [day |-> LocalTime(date) \div TicksPerDay,
     tod |-> Some(LocalTime(date) % TicksPerDay)]
DayComponents(date) ==
    [day |-> LocalTime(date) \div TicksPerDay, tod |-> Absent]

dueDate(r) ==
    IF r.dueDateComponents = Absent THEN Absent
    ELSE Some(DateFromComponents(Get(r.dueDateComponents)))

isAllDayDueDate(r) ==
    IF r.dueDateComponents = Absent THEN FALSE
    ELSE Get(r.dueDateComponents).tod = Absent

isoString(d) == d

calendarTitle(ls, id) ==
    LET i == CHOOSE j \in 1..Len(ls) : ls[j].id = id IN ls[i].title

(* alarms.compactMap { $0.absoluteDate }.sorted().first; r.alarms is the set
   of the absolute dates of the reminder's alarms. *)
remindMeDate(r) ==
    IF r.alarms = {} THEN Absent
    ELSE Some(CHOOSE a \in r.alarms : \A b \in r.alarms : a <= b)

mapReminder(ls, r) ==
    LET due == dueDate(r)
        allDayDue == IF isAllDayDueDate(r) THEN due ELSE Absent
    IN [id |-> r.id,
        name |-> r.title,
        body |-> r.notes,
        completed |-> r.isCompleted,
        completionDate |-> isoString(r.completionDate),
        dueDate |-> isoString(due),
        allDayDueDate |-> isoString(allDayDue),
        remindMeDate |-> isoString(remindMeDate(r)),
        priority |-> r.priority,
        creationDate |-> isoString(r.creationDate),
        modificationDate |-> isoString(r.lastModifiedDate),
        listName |-> calendarTitle(ls, r.calendar)]

----------------------------------------------------------------------------
(* sortReminders *)

ModKey(r) ==
    IF r.lastModifiedDate # Absent THEN Get(r.lastModifiedDate)
    ELSE IF r.creationDate # Absent THEN Get(r.creationDate)
    ELSE DistantPast

(* A comparison of the titles by character code, upper case before lower *)
areInIncreasingOrder_CaseSensitive(lhs, rhs) ==
    LET l == dueDate(lhs)
        r == dueDate(rhs)
    IN  IF l # Absent /\ r # Absent /\ Get(l) # Get(r) THEN Get(l) < Get(r)
        ELSE IF l = Absent /\ r # Absent THEN FALSE
        ELSE IF l # Absent /\ r = Absent THEN TRUE
        ELSE IF ModKey(lhs) # ModKey(rhs) THEN ModKey(lhs) > ModKey(rhs)
        ELSE LexLess(lhs.title, rhs.title)

areInIncreasingOrder(lhs, rhs) ==
    LET l == dueDate(lhs)
        r == dueDate(rhs)
    IN  IF l # Absent /\ r # Absent /\ Get(l) # Get(r) THEN Get(l) < Get(r)
        ELSE IF l = Absent /\ r # Absent THEN FALSE
        ELSE IF l # Absent /\ r = Absent THEN TRUE
        ELSE IF ModKey(lhs) # ModKey(rhs) THEN ModKey(lhs) > ModKey(rhs)
        ELSE CaseInsensitiveAscending(lhs.title, rhs.title)

(* Array.sorted(by:) is a stable sort: x goes before the first element it
   precedes. *)
RECURSIVE InsertSorted(_, _)
InsertSorted(x, s) ==
    IF s = <<>> THEN <<x>>
    ELSE IF areInIncreasingOrder(x, Head(s)) THEN <<x>> \o s
    ELSE <<Head(s)>> \o InsertSorted(x, Tail(s))

RECURSIVE SortedBy(_)
SortedBy(s) ==
    IF s = <<>> THEN <<>>
    ELSE InsertSorted(s[Len(s)], SortedBy(SubSeq(s, 1, Len(s) - 1)))

sortReminders(rs) == SortedBy(rs)

----------------------------------------------------------------------------
(* The store, as the gateway reads it *)

(* A request that was refused taken as granted *)
ensureAccess_RefusalPasses(status, prompt) ==
    IF status = "fullAccess" THEN ""
    ELSE IF status \in {"denied", "restricted"} THEN "Reminders access denied"
    ELSE IF prompt = "timeout" THEN "Timed out waiting for Reminders permission response"
    ELSE IF prompt = "error" THEN "requestError"
    ELSE ""

(* The message ensureAccess throws, "" when it returns.  prompt is what
   becomes of requestFullAccessToReminders: "granted", "refused", "error"
   (the handler gets an error) or "timeout" (no answer in 20 seconds). *)
ensureAccess(status, prompt) ==
    IF status = "fullAccess" THEN ""
    ELSE IF status \in {"denied", "restricted"} THEN "Reminders access denied"
    ELSE IF prompt = "timeout" THEN "Timed out waiting for Reminders permission response"
    ELSE IF prompt = "error" THEN "requestError"
    ELSE IF prompt = "refused" THEN "Reminders permission was not granted"
    ELSE ""

calendarByName(name, ls) ==
    IF \E i \in 1..Len(ls) : ls[i].title = name
    THEN Some(ls[CHOOSE i \in 1..Len(ls) :
                   /\ ls[i].title = name
                   /\ \A j \in 1..(i - 1) : ls[j].title # name])
    ELSE Absent

(* An unknown list taken as a list without reminders *)
selectCalendars_UnknownIsEmpty(listName, ls) ==
    IF listName = Absent THEN Success(Absent)
    ELSE IF calendarByName(Get(listName), ls) = Absent THEN Success(Some(0))
    ELSE Success(Some(Get(calendarByName(Get(listName), ls)).id))

(* nil (every calendar) is Absent; [calendar] is Some(its id) *)
selectCalendars(listName, ls) ==
    IF listName = Absent THEN Success(Absent)
    ELSE IF calendarByName(Get(listName), ls) = Absent THEN Failure("List not found")
    ELSE Success(Some(Get(calendarByName(Get(listName), ls)).id))

InCalendars(r, calendars) == calendars = Absent \/ r.calendar = Get(calendars)

fetchReminders(rs, calendars) ==
    LET Test(r) == InCalendars(r, calendars) IN SelectSeq(rs, Test)

filterCompleted(rs, completed) ==
    LET Test(r) == r.isCompleted = Get(completed)
    IN  IF completed = Absent THEN rs ELSE SelectSeq(rs, Test)

(* Dropping one element too few *)
dropFirst_OneShort(s, n) == SubSeq(s, Max(1, n), Len(s))

dropFirst(s, n) == SubSeq(s, n + 1, Len(s))
prefix(s, n) == SubSeq(s, 1, Min(n, Len(s)))

FetchTimeout == "Timed out while fetching reminders from EventKit"

operationListReminders(ls, rs, payload, timedOut) ==
    LET selected == selectCalendars(payload.listName, ls) IN
    IF ~selected.ok THEN Failure(selected.error)
    ELSE IF timedOut THEN Failure(FetchTimeout)
    ELSE
      LET fetched == fetchReminders(rs, selected.result)
          sorted == sortReminders(filterCompleted(fetched, payload.completed))
          total == Len(sorted)
          safeOffset == Max(0, IF payload.offset = Absent THEN 0 ELSE Get(payload.offset))
          safeLimit == Max(1, IF payload.limit = Absent THEN total ELSE Get(payload.limit))
          paged == prefix(dropFirst(sorted, safeOffset), safeLimit)
      IN  Success([total |-> total,
                   reminders |-> [i \in 1..Len(paged) |-> mapReminder(ls, paged[i])]])

(* The completed filter left out of the count *)
operationCountReminders_Unfiltered(ls, rs, payload, timedOut) ==
    LET selected == selectCalendars(payload.listName, ls) IN
    IF ~selected.ok THEN Failure(selected.error)
    ELSE IF timedOut THEN Failure(FetchTimeout)
    ELSE Success([count |-> Len(fetchReminders(rs, selected.result))])

operationCountReminders(ls, rs, payload, timedOut) ==
    LET selected == selectCalendars(payload.listName, ls) IN
    IF ~selected.ok THEN Failure(selected.error)
    ELSE IF timedOut THEN Failure(FetchTimeout)
    ELSE Success([count |->
            Len(filterCompleted(fetchReminders(rs, selected.result), payload.completed))])

----------------------------------------------------------------------------
(* The gateway process for the reading operations: run() and the top-level
   do/catch.  The outcome is what the process prints and its exit status. *)

EmptyOut == [kind |-> "empty", env |-> Failure("")]
GarbageOut == [kind |-> "garbage", env |-> Failure("")]
Printed(env) == [kind |-> "envelope", env |-> env]

ExitOf(env) == IF env.ok THEN 0 ELSE 1

runQuery(op, payload, ls, rs, status, prompt, timedOut) ==
    IF ensureAccess(status, prompt) # "" THEN Failure(ensureAccess(status, prompt))
    ELSE IF op = "listReminders" THEN operationListReminders(ls, rs, payload, timedOut)
    ELSE IF op = "countReminders" THEN operationCountReminders(ls, rs, payload, timedOut)
    ELSE Failure("Unsupported operation")

----------------------------------------------------------------------------
(* eventkit.ts: the envelope codec and the service functions *)

Threw(msg) == [threw |-> TRUE, message |-> msg, value |-> NoResult]
Returned(v) == [threw |-> FALSE, message |-> <<>>, value |-> v]

(* The result returned without looking at ok *)
parseEnvelope_NoOkCheck(stdout) ==
    IF stdout.kind = "empty" THEN Threw(<<"EventKit helper returned empty response">>)
    ELSE IF stdout.kind = "garbage" THEN Threw(<<"Failed to parse EventKit helper response">>)
    ELSE Returned(stdout.env.result)

parseEnvelope(stdout) ==
    IF stdout.kind = "empty" THEN Threw(<<"EventKit helper returned empty response">>)
    ELSE IF stdout.kind = "garbage" THEN Threw(<<"Failed to parse EventKit helper response">>)
    ELSE IF ~stdout.env.ok
    THEN Threw(IF stdout.env.error # "" THEN <<stdout.env.error>>
               ELSE <<"EventKit helper failed for operation">>)
    ELSE Returned(stdout.env.result)

ProcessFailure == "EventKit operation failed: "

(* The stdout of a failed process not looked at *)
runHelperExchange_IgnoreStdout(exit, stdout) ==
    IF exit = 0
    THEN IF ~parseEnvelope(stdout).threw THEN parseEnvelope(stdout)
         ELSE Threw(<<ProcessFailure>> \o parseEnvelope(stdout).message)
    ELSE Threw(<<ProcessFailure, "stderr or exec error">>)

(* runHelper from the launch on: execFileAsync resolves on exit status 0 and
   rejects, with the child's stdout attached, otherwise; an error thrown by
   parseEnvelope inside the try is caught by the same catch and has no
   stdout. *)
runHelperExchange(exit, stdout) ==
    IF exit = 0
    THEN IF ~parseEnvelope(stdout).threw THEN parseEnvelope(stdout)
         ELSE Threw(<<ProcessFailure>> \o parseEnvelope(stdout).message)
    ELSE IF stdout.kind # "empty"
    THEN parseEnvelope(stdout)
    ELSE Threw(<<ProcessFailure, "stderr or exec error">>)

parseDate(value) == value

tsMapReminder(r, now) ==
    [id |-> r.id,
     name |-> r.name,
     body |-> IF r.body = Some(StrEmpty) THEN Absent ELSE r.body,
     completed |-> r.completed,
     completionDate |-> parseDate(r.completionDate),
     dueDate |-> parseDate(r.dueDate),
     allDayDueDate |-> parseDate(r.allDayDueDate),
     remindMeDate |-> parseDate(r.remindMeDate),
     priority |-> r.priority,
     creationDate |-> IF parseDate(r.creationDate) = Absent THEN Some(now)
                      ELSE parseDate(r.creationDate),
     modificationDate |-> IF parseDate(r.modificationDate) = Absent THEN Some(now)
                          ELSE parseDate(r.modificationDate),
     listName |-> r.listName]

getPaginatedReminders(exchange, now) ==
    IF exchange.threw THEN exchange
    ELSE Returned([total |-> exchange.value.total,
                   reminders |-> [i \in 1..Len(exchange.value.reminders) |->
                                    tsMapReminder(exchange.value.reminders[i], now)]])

getReminderCount(exchange) ==
    IF exchange.threw THEN exchange ELSE Returned(exchange.value.count)

----------------------------------------------------------------------------
(* tools/lists.ts: the reminders_list handler *)

DEFAULT_LIMIT == 50
MAX_LIMIT == 200

NoToolOutput ==
    [tool |-> "none", params |-> <<>>, isError |-> FALSE, error |-> <<>>, total |-> 0,
     count |-> 0, offset |-> 0, reminders |-> <<>>, hasMore |-> FALSE, nextOffset |-> Absent]

(* hasMore computed with <= *)
remindersListHandler_HasMoreLeq(params, paged) ==
    IF paged.threw
    THEN [NoToolOutput EXCEPT !.tool = "reminders_list", !.params = params,
            !.isError = TRUE, !.error = <<"Error listing reminders: ">> \o paged.message]
    ELSE LET total == paged.value.total
             hasMore == params.offset + params.limit <= total
         IN  [tool |-> "reminders_list",
              params |-> params,
              isError |-> FALSE,
              error |-> <<>>,
              total |-> total,
              count |-> Len(paged.value.reminders),
              offset |-> params.offset,
              reminders |-> paged.value.reminders,
              hasMore |-> hasMore,
              nextOffset |-> IF hasMore THEN Some(params.offset + params.limit) ELSE Absent]

remindersListHandler(params, paged) ==
    IF paged.threw
    THEN [NoToolOutput EXCEPT !.tool = "reminders_list", !.params = params,
            !.isError = TRUE, !.error = <<"Error listing reminders: ">> \o paged.message]
    ELSE LET total == paged.value.total
             hasMore == params.offset + params.limit < total
         IN  [tool |-> "reminders_list",
              params |-> params,
              isError |-> FALSE,
              error |-> <<>>,
              total |-> total,
              count |-> Len(paged.value.reminders),
              offset |-> params.offset,
              reminders |-> paged.value.reminders,
              hasMore |-> hasMore,
              nextOffset |-> IF hasMore THEN Some(params.offset + params.limit) ELSE Absent]

(* getReminders: listReminders without offset and limit, every record mapped *)
getReminders(exchange, now) ==
    IF exchange.threw THEN exchange
    ELSE Returned([i \in 1..Len(exchange.value.reminders) |->
                      tsMapReminder(exchange.value.reminders[i], now)])

(* String.prototype.toLowerCase, includes, Array.prototype.slice *)
toLowerCase(s) == Lowercased(s)
includes(s, q) == \E i \in 0..(Len(s) - Len(q)) : SubSeq(s, i + 1, i + Len(q)) = q
slice(s, from, to) == SubSeq(s, from + 1, Min(to, Len(s)))

(* The query compared as it is, upper case unlike lower *)
remindersSearchHandler_CaseSensitive(params, allReminders) ==
    IF allReminders.threw
    THEN [NoToolOutput EXCEPT !.tool = "reminders_search", !.params = params,
            !.isError = TRUE,
            !.error = <<"Error searching reminders: ">> \o allReminders.message]
    ELSE LET Matches(r) == includes(r.name, params.query)
             matchedReminders == SelectSeq(allReminders.value, Matches)
             total == Len(matchedReminders)
             paginatedReminders ==
                 slice(matchedReminders, params.offset, params.offset + params.limit)
             hasMore == params.offset + params.limit < total
         IN  [tool |-> "reminders_search",
              params |-> params,
              isError |-> FALSE,
              error |-> <<>>,
              total |-> total,
              count |-> Len(paginatedReminders),
              offset |-> params.offset,
              reminders |-> paginatedReminders,
              hasMore |-> hasMore,
              nextOffset |-> IF hasMore THEN Some(params.offset + params.limit) ELSE Absent]

(* tools/lists.ts: the reminders_search handler *)
remindersSearchHandler(params, allReminders) ==
    IF allReminders.threw
    THEN [NoToolOutput EXCEPT !.tool = "reminders_search", !.params = params,
            !.isError = TRUE,
            !.error = <<"Error searching reminders: ">> \o allReminders.message]
    ELSE LET queryLower == toLowerCase(params.query)
             Matches(r) == includes(toLowerCase(r.name), queryLower)
             matchedReminders == SelectSeq(allReminders.value, Matches)
             total == Len(matchedReminders)
             paginatedReminders ==
                 slice(matchedReminders, params.offset, params.offset + params.limit)
             hasMore == params.offset + params.limit < total
         IN  [tool |-> "reminders_search",
              params |-> params,
              isError |-> FALSE,
              error |-> <<>>,
              total |-> total,
              count |-> Len(paginatedReminders),
              offset |-> params.offset,
              reminders |-> paginatedReminders,
              hasMore |-> hasMore,
              nextOffset |-> IF hasMore THEN Some(params.offset + params.limit) ELSE Absent]

----------------------------------------------------------------------------
(* Stores and inputs of the bounded model *)

WorkId == 1
HomeId == 2

EKReminder(title, cal, due, mod, created, completed) ==
    [id |-> 0, title |-> title, calendar |-> cal, notes |-> Absent,
     dueDateComponents |-> due, alarms |-> {}, priority |-> 0,
     isCompleted |-> completed,
     completionDate |-> IF completed THEN Some(1) ELSE Absent,
     creationDate |-> created, lastModifiedDate |-> mod]

AllDay(d) == Some([day |-> d, tod |-> Absent])
Timed(d, t) == Some([day |-> d, tod |-> Some(t)])

(* Reminders an existing store may hold: with and without a due date, all-day
   and timed, with and without a modification date, titles differing in case
   only, completed or not, in either list. *)
Seeds ==
    { EKReminder(Stra, WorkId, Timed(0, 1), Some(1), Some(0), FALSE),
      EKReminder(StrB, WorkId, Timed(0, 1), Some(1), Some(0), TRUE),
      EKReminder(StrA, HomeId, AllDay(0), Some(2), Some(0), FALSE),
      EKReminder(StrB, WorkId, Absent, Some(1), Some(0), FALSE),
      EKReminder(StrA, WorkId, Absent, Absent, Some(2), FALSE),
      EKReminder(Stra, WorkId, Timed(0, 1), Some(2), Some(1), TRUE) }

WithIds(f) == [i \in DOMAIN f |-> [f[i] EXCEPT !.id = i]]

SeedStores == { WithIds(f) : f \in UNION { [1..n -> Seeds] : n \in 0..MaxReminders } }

TwoLists == << [id |-> WorkId, title |-> "Work"], [id |-> HomeId, title |-> "Home"] >>

ListNameInputs == { Absent, Some("Work"), Some("work"), Some("Nope") }
CompletedInputs == { Absent, Some(TRUE), Some(FALSE) }
(* What the tool never sends: no offset or limit (getReminders), and values
   the schema rejects *)
GatewayOffsets == { Absent, Some(-1) }
GatewayLimits == { Absent, Some(0) }
ToolOffsets == 0..MaxReminders
ToolLimits == (1..MaxReminders) \cup { DEFAULT_LIMIT }

ListPayloads ==
    [listName : ListNameInputs, completed : CompletedInputs,
     limit : GatewayLimits, offset : GatewayOffsets]
CountPayloads == [listName : ListNameInputs, completed : CompletedInputs]
ListParams ==
    [listName : ListNameInputs, completed : CompletedInputs,
     limit : ToolLimits, offset : ToolOffsets]

NoResponse == [op |-> "none", payload |-> <<>>, exit |-> 0, stdout |-> EmptyOut]
IdlePager ==
    [state |-> "idle", listName |-> Absent, completed |-> Absent, limit |-> 1,
     offset |-> 0, acc |-> <<>>]

(* The invocation before: its operation, its payload, whether it succeeded
   and with what *)
Summary(r) ==
    [op |-> r.op, payload |-> r.payload,
     ok |-> r.stdout.kind = "envelope" /\ r.stdout.env.ok,
     result |-> r.stdout.env.result]

HelperIdle ==
    /\ srcMtime = 0
    /\ binary = Absent
    /\ buildPromise = 0
    /\ build = <<>>
    /\ calls = <<>>
    /\ fsClock = 0

InitQuery ==
    /\ lists = TwoLists
    /\ reminders \in SeedStores
    /\ authStatus = "fullAccess"
    /\ clock = 3
    /\ timeZone = UTC
    /\ response = NoResponse
    /\ toolOutput = NoToolOutput
    /\ pager = IdlePager
    /\ HelperIdle

Invocation(op, payload, timedOut) ==
    LET env == runQuery(op, payload, lists, reminders, authStatus, "granted", timedOut)
    IN  [op |-> op, payload |-> payload, exit |-> ExitOf(env), stdout |-> Printed(env)]

(* The reading operations leave the store as it is, so a behaviour of
   SpecQuery makes one invocation, or one paging session, against its store. *)
NoInvocationYet == response = NoResponse /\ toolOutput = NoToolOutput /\ pager = IdlePager

(* One gateway invocation of listReminders with any decodable payload *)
GatewayListReminders ==
    \E payload \in ListPayloads, timedOut \in BOOLEAN :
        /\ NoInvocationYet
        /\ response' = Invocation("listReminders", payload, timedOut)
        /\ toolOutput' = NoToolOutput
        /\ pager' = IdlePager
        /\ UNCHANGED <<storeVars, helperVars>>

GatewayCountReminders ==
    \E payload \in CountPayloads, timedOut \in BOOLEAN :
        /\ NoInvocationYet
        /\ response' = Invocation("countReminders", payload, timedOut)
        /\ toolOutput' = NoToolOutput
        /\ pager' = IdlePager
        /\ UNCHANGED <<storeVars, helperVars>>

(* The reminders_list tool: schema-validated parameters, one invocation *)
ToolRemindersList ==
    \E params \in ListParams, timedOut \in BOOLEAN :
        LET payload == [listName |-> params.listName, completed |-> params.completed,
                        limit |-> Some(params.limit), offset |-> Some(params.offset)]
            inv == Invocation("listReminders", payload, timedOut)
            paged == getPaginatedReminders(runHelperExchange(inv.exit, inv.stdout), clock)
        IN  /\ NoInvocationYet
            /\ response' = inv
            /\ toolOutput' = remindersListHandler(params, paged)
            /\ pager' = IdlePager
            /\ UNCHANGED <<storeVars, helperVars>>

(* A client that reads every page: offsets 0, l, 2l, ... until a page ends the
   sequence, each page one getPaginatedReminders call. *)
PagerStart ==
    \E listName \in ListNameInputs, completed \in CompletedInputs, l \in 1..MaxReminders :
        /\ NoInvocationYet
        /\ pager' = [state |-> "reading", listName |-> listName, completed |-> completed,
                     limit |-> l, offset |-> 0, acc |-> <<>>]
        /\ response' = NoResponse
        /\ toolOutput' = NoToolOutput
        /\ UNCHANGED <<storeVars, helperVars>>

PagerNext ==
    /\ pager.state = "reading"
    /\ \E timedOut \in BOOLEAN :
        LET payload == [listName |-> pager.listName, completed |-> pager.completed,
                        limit |-> Some(pager.limit), offset |-> Some(pager.offset)]
            inv == Invocation("listReminders", payload, timedOut)
            paged == getPaginatedReminders(runHelperExchange(inv.exit, inv.stdout), clock)
        IN  /\ response' = inv
            /\ toolOutput' = NoToolOutput
            /\ pager' =
                 IF paged.threw THEN [pager EXCEPT !.state = "failed"]
                 ELSE [pager EXCEPT
                         !.acc = pager.acc \o paged.value.reminders,
                         !.offset = pager.offset + pager.limit,
                         !.state = IF pager.offset + pager.limit < paged.value.total
                                   THEN "reading" ELSE "done"]
            /\ UNCHANGED <<storeVars, helperVars>>

(* The reminders_search tool: schema-validated parameters, one getReminders *)
SearchQueries == { StrA, Strb, StrAb, StrB \o StrB }

(* Reminders whose names contain one another's, in either case *)
SearchSeeds ==
    { EKReminder(StrAb, WorkId, Absent, Some(1), Some(0), FALSE),
      EKReminder(StrbA, WorkId, Timed(0, 1), Some(1), Some(0), FALSE),
      EKReminder(StrB, HomeId, AllDay(0), Some(2), Some(0), FALSE),
      EKReminder(Stra, WorkId, Absent, Some(2), Some(0), TRUE) }

SearchStores ==
    { WithIds(f) : f \in UNION { [1..n -> SearchSeeds] : n \in 0..MaxReminders } }

InitSearch ==
    /\ lists = TwoLists
    /\ reminders \in SearchStores
    /\ authStatus = "fullAccess"
    /\ clock = 3
    /\ timeZone = UTC
    /\ response = NoResponse
    /\ toolOutput = NoToolOutput
    /\ pager = IdlePager
    /\ HelperIdle
SearchParams ==
    [query : SearchQueries, listName : ListNameInputs,
     completed : {Absent, Some(FALSE)}, limit : {1, 2, DEFAULT_LIMIT}, offset : {0, 1}]

ToolRemindersSearch ==
    \E params \in SearchParams, timedOut \in BOOLEAN :
        LET payload == [listName |-> params.listName, completed |-> params.completed,
                        limit |-> Absent, offset |-> Absent]
            inv == Invocation("listReminders", payload, timedOut)
            all == getReminders(runHelperExchange(inv.exit, inv.stdout), clock)
        IN  /\ NoInvocationYet
            /\ response' = inv
            /\ toolOutput' = remindersSearchHandler(params, all)
            /\ pager' = IdlePager
            /\ UNCHANGED <<storeVars, helperVars>>

(* After a countReminders, a listReminders with the same filter, from the
   start and with no limit or a limit that is large enough *)
GatewayListAfterCount ==
    \E limit \in {Absent, Some(MaxReminders)}, offset \in {Absent, Some(0)},
       timedOut \in BOOLEAN :
        LET payload == [listName |-> response.payload.listName,
                        completed |-> response.payload.completed,
                        limit |-> limit, offset |-> offset]
            inv == Invocation("listReminders", payload, timedOut)
        IN  /\ response.op = "countReminders"
            /\ response' = [op |-> inv.op, payload |-> inv.payload, exit |-> inv.exit,
                            stdout |-> inv.stdout, prior |-> Summary(response)]
            /\ UNCHANGED <<toolOutput, pager, storeVars, helperVars>>

(* SpecSearch: one reminders_search call, or one listReminders or
   countReminders invocation, against a store of such reminders *)
NextSearch ==
    \/ ToolRemindersSearch
    \/ GatewayListReminders
    \/ GatewayCountReminders
    \/ GatewayListAfterCount

SpecSearch == InitSearch /\ [][NextSearch]_vars

NextQuery ==
    \/ GatewayListReminders
    \/ GatewayCountReminders
    \/ ToolRemindersList
    \/ PagerStart
    \/ PagerNext

SpecQuery == InitQuery /\ [][NextQuery]_vars

----------------------------------------------------------------------------
(* Properties of the reading operations (SpecQuery) *)

MatchesFilter(r, payload) ==
    /\ payload.listName = Absent \/ calendarTitle(lists, r.calendar) = Get(payload.listName)
    /\ payload.completed = Absent \/ r.isCompleted = Get(payload.completed)

FilteredIndices(payload) ==
    { k \in 1..Len(reminders) : MatchesFilter(reminders[k], payload) }

RecordOf(k) == mapReminder(lists, reminders[k])

RecordModKey(x) ==
    IF x.modificationDate # Absent THEN Get(x.modificationDate)
    ELSE IF x.creationDate # Absent THEN Get(x.creationDate)
    ELSE DistantPast

(* The order of the specification, on the records the gateway returns *)
ClaimPrecedes(x, y) ==
    \/ x.dueDate # Absent /\ y.dueDate = Absent
    \/ x.dueDate # Absent /\ y.dueDate # Absent /\ Get(x.dueDate) < Get(y.dueDate)
    \/ /\ x.dueDate = y.dueDate
       /\ \/ RecordModKey(x) > RecordModKey(y)
          \/ /\ RecordModKey(x) = RecordModKey(y)
             /\ LexLess(Lowercased(x.name), Lowercased(y.name))

ListedOk ==
    /\ response.op = "listReminders"
    /\ response.stdout.env.ok
    /\ response.payload.offset = Absent \/ Get(response.payload.offset) >= 0

ListedPage == response.stdout.env.result.reminders
ListedOffset ==
    IF response.payload.offset = Absent THEN 0 ELSE Get(response.payload.offset)

(* C1: the reminders listReminders returns are in the order of the
   specification (due before no due, ascending due, descending modification
   or creation time, ascending case-insensitive name), and the order is
   applied before pagination: the element at position o + i of the result has
   at most o + i - 1 filtered reminders strictly before it in that order and
   at least o + i that are not strictly after it. *)
C1_SortOrder ==
    ListedOk =>
        /\ \A i, j \in 1..Len(ListedPage) :
              i < j => ~ClaimPrecedes(ListedPage[j], ListedPage[i])
        /\ \A i \in 1..Len(ListedPage) :
              /\ \E k \in FilteredIndices(response.payload) : RecordOf(k) = ListedPage[i]
              /\ Cardinality({ k \in FilteredIndices(response.payload) :
                                 ClaimPrecedes(RecordOf(k), ListedPage[i]) })
                   <= ListedOffset + i - 1
              /\ Cardinality({ k \in FilteredIndices(response.payload) :
                                 ~ClaimPrecedes(ListedPage[i], RecordOf(k)) })
                   >= ListedOffset + i

(* A page of three: a reminder without a due date last, and the store's own
   order is not the returned one. *)
C1_Witness ==
    /\ ListedOk
    /\ Len(ListedPage) = 3
    /\ ListedPage[1].dueDate # Absent
    /\ ListedPage[3].dueDate = Absent
    /\ ListedPage[1].dueDate = ListedPage[2].dueDate
    /\ ListedPage[1].id > ListedPage[2].id

(* The filtered and sorted sequence of a request, by store index *)
FilteredSortedIds(payload) ==
    LET Test(r) == MatchesFilter(r, payload)
        full == sortReminders(SelectSeq(reminders, Test))
    IN  [i \in 1..Len(full) |-> full[i].id]

IdsOf(recs) == [i \in 1..Len(recs) |-> recs[i].id]

SameContent(rec) ==
    /\ rec.name = reminders[rec.id].title
    /\ rec.completed = reminders[rec.id].isCompleted
    /\ rec.listName = calendarTitle(lists, reminders[rec.id].calendar)

ToolListedOk == toolOutput.tool = "reminders_list" /\ ~toolOutput.isError

(* C2: for offset o >= 0 and limit l >= 1 the reminders_list tool returns
   exactly the elements o+1 .. o+l (counting from 1) of the filtered and
   sorted sequence, fewer when it ends and none when o >= total; total is the
   length of the filtered sequence; hasMore = (o + l < total). *)
C2_Pagination ==
    ToolListedOk =>
        LET o == toolOutput.params.offset
            l == toolOutput.params.limit
            full == FilteredSortedIds(toolOutput.params)
            n == Max(0, Min(l, Len(full) - o))
        IN  /\ o >= 0 /\ l >= 1
            /\ toolOutput.total = Len(full)
            /\ IdsOf(toolOutput.reminders) = [i \in 1..n |-> full[o + i]]
            /\ \A i \in 1..Len(toolOutput.reminders) : SameContent(toolOutput.reminders[i])
            /\ toolOutput.count = n
            /\ toolOutput.hasMore = (o + l < Len(full))

C2_Witness ==
    /\ ToolListedOk
    /\ toolOutput.params.offset = 1
    /\ toolOutput.params.limit = 1
    /\ toolOutput.total = 3
    /\ toolOutput.count = 1
    /\ toolOutput.hasMore

(* C3: the pages read at offsets 0, l, 2l, ... from an unchanged store,
   concatenated, are the full filtered and sorted sequence: every filtered
   reminder once, none twice, none missing. *)
C3_PagesReconstruct ==
    pager.state = "done" =>
        /\ IdsOf(pager.acc) = FilteredSortedIds(pager)
        /\ \A i \in 1..Len(pager.acc) : SameContent(pager.acc[i])

C3_Witness ==
    /\ pager.state = "done"
    /\ pager.limit = 2
    /\ Len(pager.acc) = 3
    /\ pager.offset = 4

----------------------------------------------------------------------------
(* Properties of search and of unknown list names (SpecSearch) *)

UnknownList(listName) ==
    listName # Absent /\ \A i \in 1..Len(lists) : lists[i].title # Get(listName)

(* C19: listReminders, countReminders and search with a listName that is
   exactly no list's name fail with the list-not-found error; none of them
   returns an empty result for it. *)
C19_UnknownListFails ==
    /\ ( response.op \in {"listReminders", "countReminders"}
         /\ UnknownList(response.payload.listName) ) =>
          /\ response.stdout = Printed(Failure("List not found"))
          /\ response.exit = 1
          /\ runHelperExchange(response.exit, response.stdout)
                = Threw(<<"List not found">>)
    /\ ( toolOutput.tool = "reminders_search"
         /\ UnknownList(toolOutput.params.listName) ) =>
          /\ toolOutput.isError
          /\ toolOutput.error = <<"Error searching reminders: ", "List not found">>
          /\ toolOutput.reminders = <<>>

(* A search in "work", which differs from the list Work in case only, over a
   store with reminders in Work *)
C19_Witness ==
    /\ toolOutput.tool = "reminders_search"
    /\ toolOutput.params.listName = Some("work")
    /\ toolOutput.isError
    /\ \E k \in 1..Len(reminders) : reminders[k].calendar = WorkId

NameContains(name, query) ==
    \E start \in 0..(Len(name) - Len(query)) :
        \A k \in 1..Len(query) : LowerChar(name[start + k]) = LowerChar(query[k])

SearchedOk == toolOutput.tool = "reminders_search" /\ ~toolOutput.isError

(* C20: search returns the reminders that pass the list and completion
   filter and whose name contains the query, case ignored, in the order of
   listReminders; offset and limit cut the sequence of all matches, total is
   its length, and a search the gateway answered is a success also when
   nothing matches. *)
C20_SearchMatches ==
    /\ SearchedOk =>
          LET p == toolOutput.params
              full == FilteredSortedIds(p)
              Matches(id) == NameContains(reminders[id].title, p.query)
              matches == SelectSeq(full, Matches)
              n == Max(0, Min(p.limit, Len(matches) - p.offset))
          IN  /\ toolOutput.total = Len(matches)
              /\ IdsOf(toolOutput.reminders) = [i \in 1..n |-> matches[p.offset + i]]
              /\ \A i \in 1..Len(toolOutput.reminders) : SameContent(toolOutput.reminders[i])
              /\ toolOutput.count = n
              /\ toolOutput.hasMore = (p.offset + p.limit < Len(matches))
    /\ ( toolOutput.tool = "reminders_search" /\ response.stdout.env.ok ) => SearchedOk

(* Two of three reminders match "b", one of them as "B"; the second page of
   one *)
C20_Witness ==
    /\ SearchedOk
    /\ toolOutput.params.query = Strb
    /\ toolOutput.params.offset = 1
    /\ toolOutput.params.limit = 1
    /\ toolOutput.total = 2
    /\ toolOutput.count = 1
    /\ toolOutput.hasMore = FALSE
    /\ toolOutput.reminders[1].name = StrB
    /\ Len(reminders) = 3

(* Nothing matches: a success with no reminders *)
C20_WitnessEmpty ==
    /\ SearchedOk
    /\ toolOutput.total = 0
    /\ Len(reminders) = 3

ListedAfterCount ==
    /\ "prior" \in DOMAIN response
    /\ response.op = "listReminders"
    /\ response.stdout.env.ok
    /\ response.prior.op = "countReminders"
    /\ response.prior.ok

(* C21: on an unchanged store, the count of countReminders equals the total
   and the number of reminders of a listReminders with the same listName and
   completed filter, offset 0 and no limit below the total; it is the number
   of reminders of the store that pass the filter. *)
C21_CountEqualsListed ==
    ListedAfterCount =>
        LET listed == response.stdout.env.result
            counted == getReminderCount(Returned(response.prior.result)).value
        IN  /\ counted = listed.total
            /\ counted = Len(listed.reminders)
            /\ counted = Cardinality(FilteredIndices(response.prior.payload))

(* Two of three reminders pass a filter on list and completion *)
C21_Witness ==
    /\ ListedAfterCount
    /\ response.prior.result.count = 2
    /\ Len(reminders) = 3
    /\ response.payload.listName # Absent
    /\ response.payload.completed # Absent
    /\ Len(response.stdout.env.result.reminders) = 2

----------------------------------------------------------------------------
(* The gateway's operations that change the store.  A date string is
   [form, value]: "internet" is a date-time with a time zone designator
   (value: the instant), "local" a date-time without one, "date" a
   YYYY-MM-DD day (value: the day), "bad" anything else. *)

InternetDateTime(t) == [form |-> "internet", value |-> t]
LocalDateTime(t) == [form |-> "local", value |-> t]
DayString(d) == [form |-> "date", value |-> d]
BadDateString == [form |-> "bad", value |-> 0]

(* ISO8601DateFormatter with .withInternetDateTime, with or without
   fractional seconds: the time zone designator is required *)
parseISODate(value) ==
    IF value.form = "internet" THEN Some(value.value) ELSE Absent

dateComponentsFromISO(value) ==
    IF parseISODate(value) = Absent THEN Failure("Invalid ISO 8601 date")
    ELSE Success(TimedComponents(Get(parseISODate(value))))

(* allDayDateFormatter reads yyyy-MM-dd as midnight UTC of that day *)
dateComponentsFromAllDay(value) ==
    IF value.form # "date" THEN Failure("Invalid all-day date format (expected YYYY-MM-DD)")
    ELSE Success(DayComponents(value.value * TicksPerDay))

IsWhitespace(c) == c \in {9, 10, 13, 32}

RECURSIVE TrimLeft(_)
TrimLeft(s) ==
    IF s # <<>> /\ IsWhitespace(Head(s)) THEN TrimLeft(Tail(s)) ELSE s

RECURSIVE TrimRight(_)
TrimRight(s) ==
    IF s # <<>> /\ IsWhitespace(s[Len(s)]) THEN TrimRight(SubSeq(s, 1, Len(s) - 1)) ELSE s

(* trimmingCharacters(in: .whitespacesAndNewlines) *)
trimmingCharacters(s) == TrimRight(TrimLeft(s))

(* What an operation leaves behind: the envelope and the store *)
Outcome(env, ls, rs) == [env |-> env, lists |-> ls, reminders |-> rs]

InsertAt(s, pos, x) == SubSeq(s, 1, pos - 1) \o <<x>> \o SubSeq(s, pos, Len(s))
RemoveAt(s, pos) == SubSeq(s, 1, pos - 1) \o SubSeq(s, pos + 1, Len(s))

(* The timed value assigned after the all-day one *)
assignFields_TimedWins(r, payload) ==
    LET iso == IF payload.dueDate = Absent THEN Success(Absent)
               ELSE dateComponentsFromISO(Get(payload.dueDate))
        allDay == IF payload.allDayDueDate = Absent THEN Success(Absent)
                  ELSE dateComponentsFromAllDay(Get(payload.allDayDueDate))
        remind == IF payload.remindMeDate = Absent THEN Absent
                  ELSE parseISODate(Get(payload.remindMeDate))
    IN  IF ~iso.ok THEN iso
        ELSE IF ~allDay.ok THEN allDay
        ELSE IF payload.remindMeDate # Absent /\ remind = Absent
        THEN Failure("Invalid ISO 8601 remindMeDate")
        ELSE Success(
          [r EXCEPT
             !.notes = IF payload.body # Absent THEN payload.body ELSE @,
             !.dueDateComponents =
                 IF payload.dueDate # Absent THEN Some(iso.result)
                 ELSE IF payload.allDayDueDate # Absent THEN Some(allDay.result)
                 ELSE @,
             !.alarms = IF payload.remindMeDate # Absent THEN {Get(remind)} ELSE @,
             !.priority = IF payload.priority # Absent THEN Get(payload.priority) ELSE @])

(* The assignments create and update share: notes, dueDateComponents (the
   all-day value assigned after the timed one), alarms, priority.  The first
   date that does not parse throws. *)
assignFields(r, payload) ==
    LET iso == IF payload.dueDate = Absent THEN Success(Absent)
               ELSE dateComponentsFromISO(Get(payload.dueDate))
        allDay == IF payload.allDayDueDate = Absent THEN Success(Absent)
                  ELSE dateComponentsFromAllDay(Get(payload.allDayDueDate))
        remind == IF payload.remindMeDate = Absent THEN Absent
                  ELSE parseISODate(Get(payload.remindMeDate))
    IN  IF ~iso.ok THEN iso
        ELSE IF ~allDay.ok THEN allDay
        ELSE IF payload.remindMeDate # Absent /\ remind = Absent
        THEN Failure("Invalid ISO 8601 remindMeDate")
        ELSE Success(
          [r EXCEPT
             !.notes = IF payload.body # Absent THEN payload.body ELSE @,
             !.dueDateComponents =
                 IF payload.allDayDueDate # Absent THEN Some(allDay.result)
                 ELSE IF payload.dueDate # Absent THEN Some(iso.result)
                 ELSE @,
             !.alarms = IF payload.remindMeDate # Absent THEN {Get(remind)} ELSE @,
             !.priority = IF payload.priority # Absent THEN Get(payload.priority) ELSE @])

(* EKReminder(eventStore: store) *)
NewReminder ==
    [id |-> 0, title |-> StrEmpty, calendar |-> 0, notes |-> Absent,
     dueDateComponents |-> Absent, alarms |-> {}, priority |-> 0,
     isCompleted |-> FALSE, completionDate |-> Absent,
     creationDate |-> Absent, lastModifiedDate |-> Absent]

(* store.save(reminder, commit: true) of a new reminder: the store gives it
   its identifier and dates, and its place among the reminders it hands over *)
saveNew(rs, r, now, pos) ==
    InsertAt(rs, pos, [r EXCEPT !.id = now + 1, !.creationDate = Some(now),
                                !.lastModifiedDate = Some(now)])

(* The name not checked *)
operationCreateReminder_NoNameCheck(ls, rs, payload, now, pos) ==
    LET calendar == calendarByName(payload.listName, ls)
        fresh == [NewReminder EXCEPT !.calendar = Get(calendar).id, !.title = payload.name]
        assigned == assignFields(fresh, payload)
    IN  IF calendar = Absent THEN Outcome(Failure("List not found"), ls, rs)
        ELSE IF ~assigned.ok THEN Outcome(assigned, ls, rs)
        ELSE Outcome(Success([id |-> now + 1]), ls, saveNew(rs, assigned.result, now, pos))

operationCreateReminder(ls, rs, payload, now, pos) ==
    LET calendar == calendarByName(payload.listName, ls)
        fresh == [NewReminder EXCEPT !.calendar = Get(calendar).id, !.title = payload.name]
        assigned == assignFields(fresh, payload)
    IN  IF calendar = Absent THEN Outcome(Failure("List not found"), ls, rs)
        ELSE IF trimmingCharacters(payload.name) = StrEmpty
        THEN Outcome(Failure("Reminder name cannot be empty"), ls, rs)
        ELSE IF ~assigned.ok THEN Outcome(assigned, ls, rs)
        ELSE Outcome(Success([id |-> now + 1]), ls, saveNew(rs, assigned.result, now, pos))

(* The index, among the reminders as the store hands them over, of the first
   one of the list that has the title *)
locateReminderByName(ls, rs, listName, reminderName) ==
    LET calendar == calendarByName(listName, ls)
        Hits == { k \in 1..Len(rs) :
                    rs[k].calendar = Get(calendar).id /\ rs[k].title = reminderName }
    IN  IF calendar = Absent THEN Failure("List not found")
        ELSE IF Hits = {} THEN Failure("Reminder not found in list")
        ELSE Success(CHOOSE k \in Hits : \A j \in Hits : k <= j)

NoUpdates(payload) ==
    /\ payload.newName = Absent
    /\ payload.body = Absent
    /\ payload.dueDate = Absent
    /\ payload.allDayDueDate = Absent
    /\ payload.remindMeDate = Absent
    /\ payload.priority = Absent
    /\ payload.completed = Absent

(* An assignment to the reminder object taken as a write to the store *)
unsaved_WritesThrough(rs, k, r) == [rs EXCEPT ![k] = r]

(* The store when the operation throws after assignments to the reminder
   object r it has located: without store.save the store keeps its own *)
unsaved(rs, k, r) == rs

(* The completion date left as it was when the reminder is marked not
   completed *)
setCompleted_KeepsDate(r, payload, now) ==
    IF payload.completed = Absent THEN r
    ELSE [r EXCEPT !.isCompleted = Get(payload.completed),
                   !.completionDate = IF Get(payload.completed) THEN Some(now) ELSE @]

(* reminder.isCompleted = completed;
   reminder.completionDate = completed ? Date() : nil *)
setCompleted(r, payload, now) ==
    IF payload.completed = Absent THEN r
    ELSE [r EXCEPT !.isCompleted = Get(payload.completed),
                   !.completionDate = IF Get(payload.completed) THEN Some(now)
                                      ELSE Absent]

(* Updating without looking whether anything is to be updated *)
operationUpdateReminder_NoCheck(ls, rs, payload, now) ==
    LET found == locateReminderByName(ls, rs, payload.listName, payload.reminderName)
        k == found.result
        renamed == IF payload.newName # Absent
                   THEN [rs[k] EXCEPT !.title = Get(payload.newName)] ELSE rs[k]
        assigned == assignFields(renamed, payload)
        done == setCompleted(assigned.result, payload, now)
    IN  IF ~found.ok THEN Outcome(found, ls, rs)
        ELSE IF ~assigned.ok THEN Outcome(assigned, ls, unsaved(rs, k, renamed))
        ELSE Outcome(Success("empty"), ls,
                     [rs EXCEPT ![k] = [done EXCEPT !.lastModifiedDate = Some(now)]])

(* The reminder is changed in memory field by field; only store.save at the
   end writes it, so a throw on the way leaves the store as it was. *)
operationUpdateReminder(ls, rs, payload, now) ==
    LET found == locateReminderByName(ls, rs, payload.listName, payload.reminderName)
        k == found.result
        renamed == IF payload.newName # Absent
                   THEN [rs[k] EXCEPT !.title = Get(payload.newName)] ELSE rs[k]
        assigned == assignFields(renamed, payload)
        done == setCompleted(assigned.result, payload, now)
    IN  IF NoUpdates(payload) THEN Outcome(Failure("No updates provided"), ls, rs)
        ELSE IF ~found.ok THEN Outcome(found, ls, rs)
        ELSE IF ~assigned.ok THEN Outcome(assigned, ls, unsaved(rs, k, renamed))
        ELSE Outcome(Success("empty"), ls,
                     [rs EXCEPT ![k] = [done EXCEPT !.lastModifiedDate = Some(now)]])

(* A delete that succeeds when there is nothing to delete *)
operationDeleteReminder_Idempotent(ls, rs, payload) ==
    LET found == locateReminderByName(ls, rs, payload.listName, payload.reminderName)
    IN  IF ~found.ok THEN Outcome(Success("empty"), ls, rs)
        ELSE Outcome(Success("empty"), ls, RemoveAt(rs, found.result))

operationDeleteReminder(ls, rs, payload) ==
    LET found == locateReminderByName(ls, rs, payload.listName, payload.reminderName)
    IN  IF ~found.ok THEN Outcome(found, ls, rs)
        ELSE Outcome(Success("empty"), ls, RemoveAt(rs, found.result))

(* hasSource: the store has a source to put a new calendar in *)
operationCreateList(ls, rs, payload, now, hasSource) ==
    IF \E i \in 1..Len(ls) : ls[i].title = payload.name
    THEN Outcome(Failure("List already exists"), ls, rs)
    ELSE IF ~hasSource
    THEN Outcome(Failure("No reminder source available for creating lists"), ls, rs)
    ELSE Outcome(Success([id |-> now + 1]),
                 Append(ls, [id |-> now + 1, title |-> payload.name]), rs)

(* The calendar removed, its reminders left behind *)
operationDeleteList_KeepsReminders(ls, rs, payload) ==
    LET calendar == calendarByName(payload.name, ls)
        KeepList(l) == l.id # Get(calendar).id
    IN  IF calendar = Absent THEN Outcome(Failure("List not found"), ls, rs)
        ELSE Outcome(Success("empty"), SelectSeq(ls, KeepList), rs)

(* store.removeCalendar removes the calendar with its reminders *)
operationDeleteList(ls, rs, payload) ==
    LET calendar == calendarByName(payload.name, ls)
        KeepList(l) == l.id # Get(calendar).id
        KeepReminder(r) == r.calendar # Get(calendar).id
    IN  IF calendar = Absent THEN Outcome(Failure("List not found"), ls, rs)
        ELSE Outcome(Success("empty"), SelectSeq(ls, KeepList), SelectSeq(rs, KeepReminder))

(* The operations run() knows and that take a payload *)
Operations ==
    { "listReminders", "countReminders", "createReminder", "updateReminder",
      "deleteReminder", "createList", "deleteList" }

(* A second argument that JSONDecoder does not decode as the payload of the
   operation: parsePayload throws *)
Undecodable == [json |-> "undecodable"]

(* run(): ensureAccess, then the operation named by the first argument *)
run(op, payload, ls, rs, status, prompt, now, pos, hasSource) ==
    IF ensureAccess(status, prompt) # ""
    THEN Outcome(Failure(ensureAccess(status, prompt)), ls, rs)
    ELSE IF op \in Operations /\ payload = Undecodable
    THEN Outcome(Failure("DecodingError"), ls, rs)
    ELSE IF op = "listReminders"
    THEN Outcome(operationListReminders(ls, rs, payload, FALSE), ls, rs)
    ELSE IF op = "countReminders"
    THEN Outcome(operationCountReminders(ls, rs, payload, FALSE), ls, rs)
    ELSE IF op = "createReminder" THEN operationCreateReminder(ls, rs, payload, now, pos)
    ELSE IF op = "updateReminder" THEN operationUpdateReminder(ls, rs, payload, now)
    ELSE IF op = "deleteReminder" THEN operationDeleteReminder(ls, rs, payload)
    ELSE IF op = "createList" THEN operationCreateList(ls, rs, payload, now, hasSource)
    ELSE IF op = "deleteList" THEN operationDeleteList(ls, rs, payload)
    ELSE Outcome(Failure("Unsupported operation"), ls, rs)

----------------------------------------------------------------------------
(* Spec: invocations of the gateway, one after another, on a small store.
   Every invocation finds the clock one tick later. *)

MaxOps == 2

StrSpaceA == <<32, 65>>

InitialStores ==
    { <<>>,
      WithIds(<< EKReminder(StrA, WorkId, Absent, Some(1), Some(0), FALSE),
                 EKReminder(StrA, WorkId, Timed(0, 1), Some(2), Some(1), FALSE) >>),
      WithIds(<< EKReminder(StrA, WorkId, Absent, Some(1), Some(0), FALSE),
                 EKReminder(StrB, HomeId, AllDay(0), Some(2), Some(0), TRUE) >>) }

CreatePayload(name, listName, due, allDay, remind) ==
    [name |-> name, listName |-> listName, body |-> Absent, dueDate |-> due,
     allDayDueDate |-> allDay, remindMeDate |-> remind, priority |-> Absent]

CreatePayloads ==
    { CreatePayload(StrA, "Work", Absent, Absent, Absent),
      CreatePayload(Stra, "Home", Some(InternetDateTime(1)), Absent, Absent),
      CreatePayload(StrB, "Home", Some(InternetDateTime(2)), Absent, Absent),
      CreatePayload(StrB, "Work", Absent, Some(DayString(1)), Some(InternetDateTime(2))),
      CreatePayload(StrSpaceA, "Work", Some(InternetDateTime(1)), Some(DayString(0)), Absent),
      [CreatePayload(StrB, "Home", Absent, Absent, Absent)
          EXCEPT !.body = Some(Stra), !.priority = Some(1)],
      CreatePayload(StrEmpty, "Work", Absent, Absent, Absent),
      CreatePayload(StrBlank, "Work", Some(InternetDateTime(1)), Absent, Absent),
      CreatePayload(StrA, "Nope", Absent, Absent, Absent),
      CreatePayload(StrA, "work", Absent, Absent, Absent),
      CreatePayload(StrEmpty, "Nope", Absent, Absent, Absent),
      CreatePayload(StrA, "Work", Some(BadDateString), Absent, Absent),
      CreatePayload(StrA, "Work", Some(LocalDateTime(1)), Absent, Absent),
      CreatePayload(StrA, "Work", Absent, Some(BadDateString), Absent),
      CreatePayload(StrA, "Work", Absent, Absent, Some(BadDateString)) }

UpdatePayload(listName, reminderName) ==
    [listName |-> listName, reminderName |-> reminderName, newName |-> Absent,
     body |-> Absent, dueDate |-> Absent, allDayDueDate |-> Absent,
     remindMeDate |-> Absent, priority |-> Absent, completed |-> Absent]

UpdatePayloads ==
    { UpdatePayload("Work", StrA),
      UpdatePayload("Work", StrB),
      UpdatePayload("Nope", StrA),
      [UpdatePayload("Work", StrA) EXCEPT !.newName = Some(StrB)],
      [UpdatePayload("Work", StrA) EXCEPT !.newName = Some(StrBlank)],
      [UpdatePayload("Work", StrA) EXCEPT !.completed = Some(TRUE)],
      [UpdatePayload("Home", StrB) EXCEPT !.completed = Some(FALSE)],
      [UpdatePayload("Work", StrA) EXCEPT !.dueDate = Some(InternetDateTime(2))],
      [UpdatePayload("Work", StrA) EXCEPT !.allDayDueDate = Some(DayString(1))],
      [UpdatePayload("Work", StrA) EXCEPT !.dueDate = Some(InternetDateTime(2)),
                                          !.allDayDueDate = Some(DayString(0))],
      [UpdatePayload("Work", StrA) EXCEPT !.newName = Some(StrB),
                                          !.dueDate = Some(BadDateString)],
      [UpdatePayload("Work", StrA) EXCEPT !.body = Some(Stra), !.priority = Some(5),
                                          !.remindMeDate = Some(InternetDateTime(1))],
      [UpdatePayload("Nope", StrA) EXCEPT !.completed = Some(TRUE)],
      [UpdatePayload("Work", Strb) EXCEPT !.priority = Some(1)] }

DeletePayloads ==
    { [listName |-> "Work", reminderName |-> StrA],
      [listName |-> "Home", reminderName |-> StrB],
      [listName |-> "Nope", reminderName |-> StrA] }

ListNames == { "Work", "New", "Nope" }

(* Zones west and east of UTC, and one where daylight saving time ends at
   instant 2 *)
Zones == { UTC, FixedZone(-1), FixedZone(1), DstZone(0, 2) }

Init ==
    /\ lists = TwoLists
    /\ reminders \in InitialStores
    /\ authStatus \in {"fullAccess", "denied"}
    /\ clock = 3
    /\ timeZone \in Zones
    /\ response = NoResponse
    /\ toolOutput = NoToolOutput
    /\ pager = IdlePager
    /\ HelperIdle

MayInvoke == clock < 3 + MaxOps

(* One process of the gateway: what it leaves in the store and what it
   prints; the record keeps the summary of the invocation before it. *)
Invoke(op, payload, pos, hasSource) ==
    LET out == run(op, payload, lists, reminders, authStatus, "granted", clock, pos,
                   hasSource)
    IN  /\ MayInvoke
        /\ lists' = out.lists
        /\ reminders' = out.reminders
        /\ response' = [op |-> op, payload |-> payload, exit |-> ExitOf(out.env),
                        stdout |-> Printed(out.env), prior |-> Summary(response)]
        /\ clock' = clock + 1
        /\ UNCHANGED <<authStatus, timeZone, toolOutput, pager, helperVars>>

GatewayCreateReminder ==
    \E payload \in CreatePayloads, pos \in 1..(Len(reminders) + 1) :
        Invoke("createReminder", payload, pos, TRUE)

GatewayUpdateReminder ==
    \E payload \in UpdatePayloads : Invoke("updateReminder", payload, 1, TRUE)

GatewayDeleteReminder ==
    \E payload \in DeletePayloads : Invoke("deleteReminder", payload, 1, TRUE)

GatewayCreateList ==
    \E name \in ListNames, hasSource \in BOOLEAN :
        Invoke("createList", [name |-> name], 1, hasSource)

GatewayDeleteList ==
    \E name \in ListNames : Invoke("deleteList", [name |-> name], 1, TRUE)

(* listReminders and countReminders as the service sends them for a whole
   list: no offset, no limit *)
ReadPayloads ==
    [listName : {Absent, Some("Work"), Some("Home"), Some("New"), Some("work")},
     completed : {Absent}, limit : {Absent}, offset : {Absent}]

GatewayReadReminders ==
    \E payload \in ReadPayloads :
        \/ Invoke("listReminders", payload, 1, TRUE)
        \/ Invoke("countReminders", [listName |-> payload.listName,
                                      completed |-> payload.completed], 1, TRUE)

Next ==
    \/ GatewayReadReminders
    \/ GatewayCreateReminder
    \/ GatewayUpdateReminder
    \/ GatewayDeleteReminder
    \/ GatewayCreateList
    \/ GatewayDeleteList

Spec == Init /\ [][Next]_vars

----------------------------------------------------------------------------
(* Properties of the operations that change the store (Spec) *)

HasVisibleCharacter(s) == \E k \in 1..Len(s) : ~IsWhitespace(s[k])
ListExists(name) == \E i \in 1..Len(lists) : lists[i].title = name
EnvelopeOk(r) == r.stdout.kind = "envelope" /\ r.stdout.env.ok
EnvelopeError(r) == r.stdout.env.error

(* C9: createReminder succeeds only if the name is not empty after trimming
   and a list with exactly the given name exists; otherwise it fails, with
   exit status 1 and an error, and the lists and reminders are as before.  A
   createReminder never changes the lists, and a successful one adds one
   reminder with the given name to the given list. *)
C9_CreateNeedsNameAndList ==
    [][ response'.op = "createReminder" =>
          LET p == response'.payload
              ok == EnvelopeOk(response')
              accepted == HasVisibleCharacter(p.name) /\ ListExists(p.listName)
          IN  /\ ok => accepted
              /\ ~accepted =>
                    /\ ~ok
                    /\ response'.exit = 1
                    /\ EnvelopeError(response') # ""
              /\ ~ok => reminders' = reminders
              /\ lists' = lists
              /\ ok => \E pos \in 1..Len(reminders') :
                          /\ reminders = RemoveAt(reminders', pos)
                          /\ reminders'[pos].title = p.name
                          /\ calendarTitle(lists, reminders'[pos].calendar) = p.listName
      ]_vars

(* A create into a list that does not exist has failed, and no such list is
   there afterwards *)
C9_Witness ==
    /\ response.op = "createReminder"
    /\ HasVisibleCharacter(response.payload.name)
    /\ response.payload.listName = "Nope"
    /\ ~EnvelopeOk(response)
    /\ EnvelopeError(response) = "List not found"
    /\ ~ListExists("Nope")

(* C10: updateReminder with none of newName, body, dueDate, allDayDueDate,
   remindMeDate, priority, completed set fails and never reports success,
   whatever list and reminder it names, and the store is as before; with
   access to the reminders granted the error, of the gateway and of the
   service's updateReminder, is "No updates provided". *)
C10_NoUpdatesFails ==
    [][ (response'.op = "updateReminder" /\ NoUpdates(response'.payload)) =>
          /\ ~EnvelopeOk(response')
          /\ response'.exit = 1
          /\ runHelperExchange(response'.exit, response'.stdout).threw
          /\ lists' = lists
          /\ reminders' = reminders
          /\ authStatus = "fullAccess" =>
                /\ EnvelopeError(response') = "No updates provided"
                /\ runHelperExchange(response'.exit, response'.stdout)
                      = Threw(<<"No updates provided">>)
      ]_vars

(* An update without fields of a reminder that is in the store *)
C10_Witness ==
    /\ response.op = "updateReminder"
    /\ NoUpdates(response.payload)
    /\ EnvelopeError(response) = "No updates provided"
    /\ locateReminderByName(lists, reminders, response.payload.listName,
                            response.payload.reminderName).ok

(* The reminders of the named list that carry the name, in the order of
   listReminders *)
SortedNamesakes(listName, name) ==
    LET calendar == calendarByName(listName, lists)
        Test(r) == r.title = name
    IN  SelectSeq(sortReminders(fetchReminders(reminders, Some(Get(calendar).id))), Test)

(* C11: when several reminders of a list carry the name given to
   updateReminder or deleteReminder, the operation acts on the one that
   listReminders puts first, and on no other: a successful delete removes
   that one, a successful update saves that one and leaves the others. *)
C11_ActsOnFirstInSortOrder ==
    [][ (response'.op \in {"updateReminder", "deleteReminder"} /\ EnvelopeOk(response')) =>
          LET p == response'.payload
              target == Head(SortedNamesakes(p.listName, p.reminderName)).id
              Others(rs) == { r \in { rs[k] : k \in 1..Len(rs) } : r.id # target }
          IN  /\ Others(reminders') = Others(reminders)
              /\ response'.op = "deleteReminder" =>
                    \A k \in 1..Len(reminders') : reminders'[k].id # target
      ]_vars

(* The invocation repeats the one before it, which succeeded *)
Repeated(op) ==
    /\ response.op = op
    /\ response.prior.op = op
    /\ response.prior.ok
    /\ response.prior.payload = response.payload

(* A reminder of that name is in that list *)
NamesakeLeft(listName, name) ==
    \E k \in 1..Len(reminders) :
        /\ reminders[k].title = name
        /\ calendarTitle(lists, reminders[k].calendar) = listName

(* C12 as stated: a deleteReminder or deleteList that repeats the call that
   has just succeeded fails with a not-found error. *)
C12_RepeatedDeleteFails ==
    /\ Repeated("deleteReminder") =>
          /\ ~EnvelopeOk(response)
          /\ EnvelopeError(response) = "Reminder not found in list"
    /\ Repeated("deleteList") =>
          /\ ~EnvelopeOk(response)
          /\ EnvelopeError(response) = "List not found"

(* C12, amended: a deleteReminder that repeats the call that has just
   succeeded fails, with the not-found error, exactly when no other reminder
   of that name is left in the list; when one is left it deletes that one.
   A deleteList that repeats the call that has just succeeded fails with the
   not-found error. *)
C12_RepeatedDeleteFailsWithoutNamesake ==
    [][ /\ ( /\ response.op = "deleteReminder" /\ EnvelopeOk(response)
             /\ response'.op = "deleteReminder"
             /\ response'.payload = response.payload ) =>
              LET p == response.payload IN
              /\ EnvelopeOk(response') <=> NamesakeLeft(p.listName, p.reminderName)
              /\ ~EnvelopeOk(response') =>
                    /\ EnvelopeError(response') = "Reminder not found in list"
                    /\ response'.exit = 1
                    /\ reminders' = reminders
              /\ EnvelopeOk(response') => Len(reminders') = Len(reminders) - 1
        /\ ( /\ response.op = "deleteList" /\ EnvelopeOk(response)
             /\ response'.op = "deleteList"
             /\ response'.payload = response.payload ) =>
              /\ ~EnvelopeOk(response')
              /\ EnvelopeError(response') = "List not found"
              /\ response'.exit = 1
      ]_vars

(* A repeated deleteReminder that found no namesake and failed *)
C12_Witness ==
    /\ Repeated("deleteReminder")
    /\ ~EnvelopeOk(response)
    /\ EnvelopeError(response) = "Reminder not found in list"
    /\ ~NamesakeLeft(response.payload.listName, response.payload.reminderName)

(* C13: after deleteList(L) succeeds the store holds no list named L and no
   reminder of L, the other lists and reminders are as before, and a
   listReminders with listName = L that follows fails with the
   list-not-found error. *)
C13_DeleteListRemovesItsReminders ==
    [][ /\ (response'.op = "deleteList" /\ EnvelopeOk(response')) =>
              LET L == response'.payload.name
                  OtherList(l) == l.title # L
                  InOtherList(r) == calendarTitle(lists, r.calendar) # L
              IN  /\ \A i \in 1..Len(lists') : lists'[i].title # L
                  /\ \A k \in 1..Len(reminders') :
                        \E i \in 1..Len(lists') : lists'[i].id = reminders'[k].calendar
                  /\ lists' = SelectSeq(lists, OtherList)
                  /\ reminders' = SelectSeq(reminders, InOtherList)
        /\ ( /\ response.op = "deleteList" /\ EnvelopeOk(response)
             /\ response'.op \in {"listReminders", "countReminders"}
             /\ response'.payload.listName = Some(response.payload.name) ) =>
              /\ ~EnvelopeOk(response')
              /\ EnvelopeError(response') = "List not found"
              /\ response'.exit = 1
      ]_vars

(* Work was deleted with its reminders, a reminder of Home is still there,
   and listReminders of Work has failed *)
C13_Witness ==
    /\ response.op = "listReminders"
    /\ response.payload.listName = Some("Work")
    /\ response.prior.op = "deleteList"
    /\ response.prior.ok
    /\ response.prior.payload.name = "Work"
    /\ EnvelopeError(response) = "List not found"
    /\ Len(reminders) = 1
    /\ reminders[1].calendar = HomeId

----------------------------------------------------------------------------
(* SpecLists: createList and deleteList calls of the service that overlap.
   Each call launches its own gateway process; a process reads the calendars
   (allReminderCalendars) and later saves or removes a calendar, and another
   process may run in between.  calls holds the calls with their gateway's
   position. *)

ListCall(op, name) ==
    [op |-> op, name |-> name, pc |-> "launched", calendars |-> <<>>,
     stdout |-> EmptyOut]

InitLists ==
    /\ lists = TwoLists
    /\ reminders \in InitialStores
    /\ authStatus = "fullAccess"
    /\ clock = 3
    /\ timeZone = UTC
    /\ response = NoResponse
    /\ toolOutput = NoToolOutput
    /\ pager = IdlePager
    /\ HelperIdle

(* remindersService.createList(name) or deleteList(name): runHelper launches
   a gateway *)
CallListOperation ==
    \E op \in {"createList", "deleteList"}, name \in ListNames :
        /\ Len(calls) < MaxCalls
        /\ calls' = Append(calls, ListCall(op, name))
        /\ UNCHANGED <<storeVars, queryVars, srcMtime, binary, buildPromise, build, fsClock>>

(* let existing = allReminderCalendars(store) *)
GatewayReadsCalendars ==
    \E i \in 1..Len(calls) :
        /\ calls[i].pc = "launched"
        /\ calls' = [calls EXCEPT ![i].pc = "read", ![i].calendars = lists]
        /\ UNCHANGED <<storeVars, queryVars, srcMtime, binary, buildPromise, build, fsClock>>

(* The rest of the operation, on the calendars the process has read:
   saveCalendar adds the new calendar to the store as it is now;
   removeCalendar of a calendar that is gone throws. *)
GatewayCommits ==
    \E i \in 1..Len(calls), hasSource \in BOOLEAN :
        LET c == calls[i]
            out == run(c.op, [name |-> c.name], c.calendars, reminders, authStatus,
                       "granted",
                       clock, 1, hasSource)
            gone == c.op = "deleteList" /\ out.env.ok
                      /\ \E l \in { c.calendars[k] : k \in 1..Len(c.calendars) } :
                            /\ l.title = c.name
                            /\ \A k \in 1..Len(lists) : lists[k].id # l.id
            env == IF gone THEN Failure("The calendar could not be removed") ELSE out.env
            KeptList(l) == \E k \in 1..Len(out.lists) : out.lists[k].id = l.id
            KeptReminder(r) == \E k \in 1..Len(out.reminders) : out.reminders[k].id = r.id
        IN  /\ c.pc = "read"
            /\ calls' = [calls EXCEPT ![i].pc = "done", ![i].stdout = Printed(env)]
            /\ lists' = IF ~env.ok THEN lists
                        ELSE IF c.op = "createList"
                        THEN Append(lists, out.lists[Len(out.lists)])
                        ELSE SelectSeq(lists, KeptList)
            /\ reminders' = IF env.ok /\ c.op = "deleteList"
                            THEN SelectSeq(reminders, KeptReminder) ELSE reminders
            /\ clock' = clock + 1
            /\ UNCHANGED <<authStatus, timeZone, queryVars, srcMtime, binary,
                           buildPromise, build, fsClock>>

NextLists ==
    \/ CallListOperation
    \/ GatewayReadsCalendars
    \/ GatewayCommits

SpecLists == InitLists /\ [][NextLists]_vars

(* C14: from a store whose list names are pairwise distinct, list names stay
   pairwise distinct whatever createList and deleteList calls are made and
   however they overlap. *)
C14_ListNamesDistinct ==
    \A i, j \in 1..Len(lists) : i # j => lists[i].title # lists[j].title

(* A listReminders that follows a successful createReminder, and the records
   it returns for the reminder created, as the service's mapReminder gives
   them to its callers *)
ReadBack ==
    /\ response.op = "listReminders"
    /\ EnvelopeOk(response)
    /\ response.prior.op = "createReminder"
    /\ response.prior.ok

ReadBackRecords ==
    LET listed == response.stdout.env.result.reminders
    IN  { tsMapReminder(listed[k], clock) :
            k \in { j \in 1..Len(listed) : listed[j].id = response.prior.result.id } }

(* C15: a reminder created with a timed due date, given as an ISO 8601
   date-time, reads back with a dueDate that is the instant given and without
   allDayDueDate. *)
C15_TimedDueDateRoundTrip ==
    ( /\ ReadBack
      /\ response.prior.payload.dueDate # Absent
      /\ response.prior.payload.allDayDueDate = Absent ) =>
        \A r \in ReadBackRecords :
            /\ r.dueDate = Some(Get(response.prior.payload.dueDate).value)
            /\ r.allDayDueDate = Absent

(* The day, in the machine's time zone, an instant falls on *)
LocalDay(t) == LocalTime(t) \div TicksPerDay

(* C16: a reminder created with an all-day due date YYYY-MM-DD reads back
   with an allDayDueDate that denotes that calendar date, in every time zone
   of the machine. *)
C16_AllDayDueDateRoundTrip ==
    ( /\ ReadBack
      /\ response.prior.payload.allDayDueDate # Absent ) =>
        \A r \in ReadBackRecords :
            /\ r.allDayDueDate # Absent
            /\ LocalDay(Get(r.allDayDueDate)) = Get(response.prior.payload.allDayDueDate).value

(* C17: in every record listReminders returns, dueDate and allDayDueDate are
   not both present: a reminder whose due date has a day only has
   allDayDueDate and no dueDate, one whose due date has a time has dueDate
   and no allDayDueDate. *)
C17_DueSlotsExclusive ==
    ( response.op = "listReminders" /\ response.stdout.kind = "envelope"
      /\ response.stdout.env.ok ) =>
        LET listed == response.stdout.env.result.reminders
        IN  \A k \in 1..Len(listed) :
                ~(listed[k].dueDate # Absent /\ listed[k].allDayDueDate # Absent)

(* An ISO 8601 date-time, with a time zone offset or without one *)
IsDateTime(d) == d.form \in {"internet", "local"}
WellFormedDates(p) ==
    /\ p.dueDate # Absent => IsDateTime(Get(p.dueDate))
    /\ p.remindMeDate # Absent => IsDateTime(Get(p.remindMeDate))
    /\ p.allDayDueDate # Absent => Get(p.allDayDueDate).form = "date"

InvalidDateErrors ==
    { "Invalid ISO 8601 date", "Invalid ISO 8601 remindMeDate",
      "Invalid all-day date format (expected YYYY-MM-DD)" }

(* C18: createReminder and updateReminder accept a dueDate or remindMeDate
   that is an ISO 8601 date-time with or without a time zone offset; only a
   malformed date string is rejected with an invalid-date error. *)
C18_DateTimeWithoutOffsetAccepted ==
    ( /\ response.op \in {"createReminder", "updateReminder"}
      /\ ~EnvelopeOk(response)
      /\ EnvelopeError(response) \in InvalidDateErrors ) =>
        ~WellFormedDates(response.payload)

----------------------------------------------------------------------------
(* eventkit.ts in one Node process: ensureHelperBuilt and runHelper.
   JavaScript runs one callback at a time: what a call does between two
   awaits is one step. *)

NoPromise == 0

CompiledBinary(mtime) == Some([mtime |-> mtime, complete |-> TRUE])
PartialBinary(mtime) == Some([mtime |-> mtime, complete |-> FALSE])

(* A build started whether or not one is in flight *)
ShouldStartBuild_Always(bp) == TRUE

(* if (!buildPromise) *)
ShouldStartBuild(bp) == bp = NoPromise

(* The synchronous part of ensureHelperBuilt: the async body runs to its
   first await (fs.mkdir) and buildPromise is assigned. *)
ensureHelperBuilt(bp, bs) ==
    IF ShouldStartBuild(bp)
    THEN [promise |-> Len(bs) + 1, build |-> Append(bs, [pc |-> "mkdir"]), started |-> TRUE]
    ELSE [promise |-> bp, build |-> bs, started |-> FALSE]

InFlight(b) == b.pc \in {"mkdir", "stat", "rebuild", "current", "compile"}
BuildsInFlight(bs) == { g \in 1..Len(bs) : InFlight(bs[g]) }

(* A binary as old as the source taken as stale *)
NeedsRebuild_NotNewer(src, bin) == IF bin = Absent THEN TRUE ELSE src >= Get(bin).mtime

(* rebuild = sourceStat.mtimeMs > binaryStat.mtimeMs; a failed stat: rebuild *)
NeedsRebuild(src, bin) == IF bin = Absent THEN TRUE ELSE src > Get(bin).mtime

BuildError == <<"Command failed: xcrun swiftc">>

(* Only the call that started the build sees it fail *)
ResumeCall_JoinersIgnoreFailure(c, g, ok, bin, src) ==
    IF c.pc = "awaitBuild" /\ c.awaits = g
    THEN IF ok \/ ~c.started
         THEN [c EXCEPT !.pc = "running", !.launched = TRUE,
                        !.launchBinary = bin, !.launchSrc = src]
         ELSE [c EXCEPT !.pc = "done", !.outcome = [threw |-> TRUE,
                    message |-> <<"Command failed: xcrun swiftc">>, value |-> NoResult]]
    ELSE c

(* await buildPromise, for a call that awaits build g when g settles: the
   build error propagates out of runHelper, or runHelper goes on to
   execFileAsync(helperBinaryPath, args) in the same turn of the event loop,
   with the file system as it is then. *)
ResumeCall(c, g, ok, bin, src) ==
    IF c.pc = "awaitBuild" /\ c.awaits = g
    THEN IF ok
         THEN [c EXCEPT !.pc = "running", !.launched = TRUE,
                        !.launchBinary = bin, !.launchSrc = src]
         ELSE [c EXCEPT !.pc = "done", !.outcome = Threw(BuildError)]
    ELSE c

(* The promise of the settled build kept *)
finallyReset_Keeps(bp) == bp

(* .finally(() => { buildPromise = null; }) *)
finallyReset(bp) == NoPromise

(* The async body settles; .finally resets buildPromise; every awaiting call
   continues.  These are microtasks of one turn: no other call comes in
   between. *)
Settle(g, ok, bin) ==
    /\ build' = [build EXCEPT ![g].pc = IF ok THEN "resolved" ELSE "rejected"]
    /\ buildPromise' = finallyReset(buildPromise)
    /\ calls' = [i \in 1..Len(calls) |-> ResumeCall(calls[i], g, ok, bin, srcMtime)]

NewCall(promise, started, inFlight) ==
    [pc |-> "awaitBuild", awaits |-> promise, started |-> started,
     inFlightAtCall |-> inFlight, srcAtCall |-> srcMtime,
     launched |-> FALSE, launchBinary |-> Absent, launchSrc |-> 0,
     exit |-> 0, stdout |-> EmptyOut, outcome |-> Returned(NoResult)]

(* A caller invokes runHelper: await ensureHelperBuilt() *)
CallRunHelper ==
    /\ Len(calls) < MaxCalls
    /\ LET e == ensureHelperBuilt(buildPromise, build)
       IN  /\ buildPromise' = e.promise
           /\ build' = e.build
           /\ calls' = Append(calls, NewCall(e.promise, e.started,
                                IF BuildsInFlight(build) = {} THEN 0
                                ELSE CHOOSE g \in BuildsInFlight(build) : TRUE))
    /\ UNCHANGED <<srcMtime, binary, fsClock, storeVars, queryVars>>

(* await fs.mkdir(helperBinDir, { recursive: true }) *)
BuildMkdir ==
    \E g \in 1..Len(build) :
        /\ build[g].pc = "mkdir"
        /\ build' = [build EXCEPT ![g].pc = "stat"]
        /\ UNCHANGED <<srcMtime, binary, buildPromise, calls, fsClock, storeVars, queryVars>>

(* The two stats are taken; the body is resumed with them later *)
BuildStat ==
    \E g \in 1..Len(build) :
        /\ build[g].pc = "stat"
        /\ build' = [build EXCEPT ![g] =
                        [pc |-> IF NeedsRebuild(srcMtime, binary) THEN "rebuild"
                                ELSE "current",
                         sourceStat |-> srcMtime,
                         binaryStat |-> IF binary = Absent THEN Absent
                                        ELSE Some(Get(binary).mtime)]]
        /\ UNCHANGED <<srcMtime, binary, buildPromise, calls, fsClock, storeVars, queryVars>>

(* if (!rebuild) return; otherwise xcrun swiftc is started *)
BuildDecide ==
    \E g \in 1..Len(build) :
        /\ build[g].pc \in {"rebuild", "current"}
        /\ IF build[g].pc = "rebuild"
           THEN /\ build' = [build EXCEPT ![g].pc = "compile"]
                /\ UNCHANGED <<buildPromise, calls>>
           ELSE Settle(g, TRUE, binary)
        /\ UNCHANGED <<srcMtime, binary, fsClock, storeVars, queryVars>>

(* xcrun swiftc ... -o helperBinaryPath ends.  A failed compile leaves the
   path as it was, or empty, or with what had been written. *)
BuildCompile ==
    \E g \in 1..Len(build) :
        /\ build[g].pc = "compile"
        /\ \/ /\ binary' = CompiledBinary(fsClock)
              /\ Settle(g, TRUE, CompiledBinary(fsClock))
           \/ /\ binary' \in {binary, Absent, PartialBinary(fsClock)}
              /\ Settle(g, FALSE, binary)
        /\ UNCHANGED <<srcMtime, fsClock, storeVars, queryVars>>

(* What a launched gateway can end with: the envelope of run() and exit
   status 0, the failure envelope of the top-level catch and exit status 1,
   the fallback envelope of emitJSON (printed, exit status 0), or a process
   that ends without a complete envelope: nothing printed, or output cut
   short (maxBuffer). *)
GatewayOutcomes ==
    { [exit |-> 0, stdout |-> Printed(Success("result"))],
      [exit |-> 1, stdout |-> Printed(Failure("List not found"))],
      [exit |-> 0, stdout |-> Printed(Failure("Failed to serialize response"))],
      [exit |-> 1, stdout |-> EmptyOut],
      [exit |-> 1, stdout |-> GarbageOut],
      [exit |-> 0, stdout |-> EmptyOut],
      [exit |-> 0, stdout |-> GarbageOut] }

(* A file that is no complete binary cannot be executed *)
ExecOutcomes(bin) ==
    IF bin # Absent /\ Get(bin).complete THEN GatewayOutcomes
    ELSE { [exit |-> 1, stdout |-> EmptyOut] }

(* The gateway ends and runHelper returns or throws *)
GatewayExit ==
    \E i \in 1..Len(calls), o \in GatewayOutcomes :
        /\ calls[i].pc = "running"
        /\ o \in ExecOutcomes(calls[i].launchBinary)
        /\ calls' = [calls EXCEPT ![i].pc = "done",
                                  ![i].exit = o.exit,
                                  ![i].stdout = o.stdout,
                                  ![i].outcome = runHelperExchange(o.exit, o.stdout)]
        /\ UNCHANGED <<srcMtime, binary, buildPromise, build, fsClock, storeVars, queryVars>>

(* Someone edits RemindersEventKitHelper.swift *)
TouchSource ==
    /\ fsClock < MaxTime
    /\ fsClock' = fsClock + 1
    /\ srcMtime' = fsClock + 1
    /\ UNCHANGED <<binary, buildPromise, build, calls, storeVars, queryVars>>

InitHelper ==
    /\ lists = TwoLists
    /\ reminders = <<>>
    /\ authStatus = "fullAccess"
    /\ clock = 0
    /\ timeZone = UTC
    /\ response = NoResponse
    /\ toolOutput = NoToolOutput
    /\ pager = IdlePager
    /\ fsClock = 1
    /\ srcMtime \in {0, 1}
    /\ binary \in {Absent, CompiledBinary(0)}
    /\ buildPromise = NoPromise
    /\ build = <<>>
    /\ calls = <<>>

NextHelper ==
    \/ CallRunHelper
    \/ BuildMkdir
    \/ BuildStat
    \/ BuildDecide
    \/ BuildCompile
    \/ GatewayExit
    \/ TouchSource

SpecHelper == InitHelper /\ [][NextHelper]_vars

----------------------------------------------------------------------------
(* Properties of the helper lifecycle and the codec (SpecHelper) *)

CallIds == 1..Len(calls)

(* C4: at most one helper build is in flight at any moment, and a call that
   arrives while a build is in flight awaits that build and starts none. *)
C4_OneBuildInFlight ==
    /\ Cardinality(BuildsInFlight(build)) <= 1
    /\ \A i \in CallIds :
          calls[i].inFlightAtCall # 0 =>
              /\ calls[i].awaits = calls[i].inFlightAtCall
              /\ ~calls[i].started

(* A second call joined the build of the first while it was compiling *)
C4_Witness ==
    \E i \in CallIds :
        /\ calls[i].inFlightAtCall # 0
        /\ ~calls[i].started
        /\ build[calls[i].awaits].pc = "compile"
        /\ Len(build) = 1

(* C5: by the claim, a call made after the source was modified launches a
   binary that exists and is not older than the source as it was when the
   call was made (the source's modification time only grows, so this follows
   from "up to date at that launch"). *)
C5_LaunchUpToDate ==
    \A i \in CallIds :
        calls[i].launched =>
            /\ calls[i].launchBinary # Absent
            /\ calls[i].srcAtCall <= Get(calls[i].launchBinary).mtime

(* C6: when the compile of a build fails, every call awaiting that build,
   the one that started it and the ones that joined it, throws the build
   error and does not launch the gateway. *)
C6_BuildFailureReachesAll ==
    \A i \in CallIds :
        build[calls[i].awaits].pc = "rejected" =>
            /\ calls[i].pc = "done"
            /\ calls[i].outcome = Threw(BuildError)
            /\ ~calls[i].launched

(* A failed build with its starter and a joiner *)
C6_Witness ==
    \E i, j \in CallIds :
        /\ calls[i].started /\ ~calls[j].started
        /\ calls[i].awaits = calls[j].awaits
        /\ build[calls[i].awaits].pc = "rejected"

Finished(i) == calls[i].pc = "done" /\ calls[i].launched

Contains(msg, part) == \E k \in 1..Len(msg) : msg[k] = part

(* C7: runHelper returns a result only for a standard output that is an
   envelope with ok = true, and then that envelope's result; an empty
   output, an output that is not JSON and an envelope with ok = false make it
   throw an error, which carries the envelope's message when ok = false. *)
C7_ResultOnlyFromOkEnvelope ==
    \A i \in CallIds :
        Finished(i) =>
            LET out == calls[i].stdout
                res == calls[i].outcome
            IN  /\ ~res.threw =>
                      /\ out.kind = "envelope"
                      /\ out.env.ok
                      /\ res.value = out.env.result
                /\ (out.kind # "envelope" \/ ~out.env.ok) =>
                      /\ res.threw
                      /\ res.message # <<>>
                /\ (out.kind = "envelope" /\ ~out.env.ok) =>
                      Contains(res.message, out.env.error)

(* An envelope with ok = false printed by a process that exits with status 0:
   parseEnvelope throws inside the try and the catch wraps the message *)
C7_Witness ==
    \E i \in CallIds :
        /\ Finished(i)
        /\ calls[i].exit = 0
        /\ calls[i].stdout.kind = "envelope"
        /\ ~calls[i].stdout.env.ok
        /\ calls[i].outcome.threw
        /\ calls[i].outcome.message[1] = ProcessFailure

(* C8: a gateway that exits with a non-zero status makes the operation fail;
   the error is the message of the envelope it printed when it printed one,
   and the process-failure message is used only when it printed no parseable
   envelope. *)
C8_NonZeroExit ==
    \A i \in CallIds :
        (Finished(i) /\ calls[i].exit # 0) =>
            /\ calls[i].outcome.threw
            /\ calls[i].stdout.kind = "envelope" =>
                  calls[i].outcome.message = <<calls[i].stdout.env.error>>
            /\ calls[i].outcome.message[1] = ProcessFailure =>
                  calls[i].stdout.kind # "envelope"

C8_Witness ==
    \E i, j \in CallIds :
        /\ Finished(i) /\ calls[i].exit # 0
        /\ calls[i].stdout = Printed(Failure("List not found"))
        /\ calls[i].outcome = Threw(<<"List not found">>)
        /\ Finished(j) /\ calls[j].exit # 0
        /\ calls[j].stdout.kind = "empty"
        /\ calls[j].outcome.message[1] = ProcessFailure

----------------------------------------------------------------------------
(* Completion (Spec) *)

UpdatedIndex(payload) ==
    locateReminderByName(lists, reminders, payload.listName, payload.reminderName).result

CompletedSet(r) ==
    /\ r.op = "updateReminder"
    /\ EnvelopeOk(r)
    /\ r.payload.completed # Absent

(* C22: an updateReminder with completed = true leaves the reminder completed
   with the time of the update as completion date, one with completed = false
   leaves it not completed and without completion date; and every reminder
   of the store reads back with a completion date exactly when it reads back
   as completed. *)
C22_CompletionDateIffCompleted ==
    /\ [](\A k \in 1..Len(reminders) :
             LET rec == mapReminder(lists, reminders[k])
             IN  rec.completionDate # Absent <=> rec.completed)
    /\ [][CompletedSet(response') =>
            LET after == reminders'[UpdatedIndex(response'.payload)]
            IN  /\ after.isCompleted = Get(response'.payload.completed)
                /\ after.completionDate =
                      IF after.isCompleted THEN Some(clock) ELSE Absent]_vars

(* A completed reminder of the store was marked not completed, and another
   reminder was marked completed *)
C22_Witness ==
    /\ CompletedSet(response)
    /\ response.payload.completed = Some(FALSE)
    /\ response.prior.op = "updateReminder"
    /\ response.prior.ok
    /\ response.prior.payload.completed = Some(TRUE)
    /\ \E k \in 1..Len(reminders) :
          reminders[k].isCompleted /\ reminders[k].completionDate = Some(clock - 2)
    /\ \E k \in 1..Len(reminders) :
          /\ reminders[k].title = StrB
          /\ ~reminders[k].isCompleted
          /\ reminders[k].completionDate = Absent

----------------------------------------------------------------------------
(* SpecAccess: invocations of the gateway under every authorization status,
   with every outcome of the permission request. *)

AccessStatuses == { "fullAccess", "denied", "restricted", "notDetermined", "writeOnly" }

(* What becomes of requestFullAccessToReminders; it is only called when the
   status is notDetermined or writeOnly *)
RequestOutcomes(status) ==
    IF status \in {"notDetermined", "writeOnly"}
    THEN {"granted", "refused", "timeout", "error"}
    ELSE {"none"}

(* The status the next process finds: the answer to the request is kept *)
StatusAfterRequest(status, prompt) ==
    IF prompt = "granted" THEN "fullAccess"
    ELSE IF prompt = "refused" THEN "denied"
    ELSE status

(* No date in the payload that parses: what the dates of a reminder become
   is not looked at here *)
WithoutValidDate(p) ==
    /\ p.dueDate = Absent \/ parseISODate(Get(p.dueDate)) = Absent
    /\ p.allDayDueDate = Absent \/ ~dateComponentsFromAllDay(Get(p.allDayDueDate)).ok
    /\ p.remindMeDate = Absent \/ parseISODate(Get(p.remindMeDate)) = Absent

AccessCalls ==
    UNION {
      { [op |-> "listReminders", payload |-> p] : p \in ReadPayloads },
      { [op |-> "countReminders",
         payload |-> [listName |-> p.listName, completed |-> p.completed]] :
           p \in ReadPayloads },
      { [op |-> "createReminder", payload |-> p] :
           p \in { q \in CreatePayloads : WithoutValidDate(q) } },
      { [op |-> "updateReminder", payload |-> p] :
           p \in { q \in UpdatePayloads : WithoutValidDate(q) } },
      { [op |-> "deleteReminder", payload |-> p] : p \in DeletePayloads },
      { [op |-> "createList", payload |-> [name |-> n]] : n \in ListNames },
      { [op |-> "deleteList", payload |-> [name |-> n]] : n \in ListNames },
      { [op |-> op, payload |-> Undecodable] : op \in Operations },
      { [op |-> "renameList", payload |-> [name |-> "Work"]] } }

InitAccess ==
    /\ lists = TwoLists
    /\ reminders \in InitialStores \ { <<>> }
    /\ authStatus \in AccessStatuses
    /\ clock = 3
    /\ timeZone = UTC
    /\ response = NoResponse
    /\ toolOutput = NoToolOutput
    /\ pager = IdlePager
    /\ HelperIdle

GatewayInvocation ==
    \E call \in AccessCalls, prompt \in RequestOutcomes(authStatus),
       pos \in 1..(Len(reminders) + 1), hasSource \in BOOLEAN :
        LET out == run(call.op, call.payload, lists, reminders, authStatus, prompt,
                       clock, pos, hasSource)
        IN  /\ MayInvoke
            /\ call.op # "createReminder" => pos = 1
            /\ call.op # "createList" => hasSource
            /\ lists' = out.lists
            /\ reminders' = out.reminders
            /\ response' = [op |-> call.op, payload |-> call.payload,
                            exit |-> ExitOf(out.env), stdout |-> Printed(out.env),
                            prior |-> Summary(response),
                            status |-> authStatus, prompt |-> prompt]
            /\ authStatus' = StatusAfterRequest(authStatus, prompt)
            /\ clock' = clock + 1
            /\ UNCHANGED <<timeZone, toolOutput, pager, helperVars>>

NextAccess == GatewayInvocation

SpecAccess == InitAccess /\ [][NextAccess]_vars

(* The cases in which access is not verified as granted *)
AccessNotGranted(r) ==
    \/ r.status \in {"denied", "restricted"}
    \/ r.status \in {"notDetermined", "writeOnly"} /\ r.prompt \in {"refused", "timeout"}

PermissionMessages ==
    { "Reminders access denied", "Reminders permission was not granted",
      "Timed out waiting for Reminders permission response" }

(* C23: an invocation that finds access denied or restricted, or whose
   permission request is refused or gets no answer, ends: it prints a
   failure envelope with a permission or timeout message and no result,
   exits with 1, and leaves lists and reminders as they were; the message is
   the timeout message exactly when the request got no answer.  Whenever an
   invocation reads or changes the store, the status was fullAccess or the
   request was granted. *)
C23_NoStoreAccessWithoutPermission ==
    [][/\ AccessNotGranted(response') =>
            /\ response'.stdout.kind = "envelope"
            /\ ~response'.stdout.env.ok
            /\ response'.stdout.env.error \in PermissionMessages
            /\ response'.stdout.env.result = NoResult
            /\ response'.exit = 1
            /\ lists' = lists
            /\ reminders' = reminders
            /\ (response'.stdout.env.error
                   = "Timed out waiting for Reminders permission response")
                 <=> (response'.status \in {"notDetermined", "writeOnly"}
                        /\ response'.prompt = "timeout")
       /\ (EnvelopeOk(response') \/ lists' # lists \/ reminders' # reminders) =>
            \/ response'.status = "fullAccess"
            \/ response'.prompt = "granted"]_vars

(* A request that was refused, where the store holds the reminder the
   invocation would have changed; and an invocation that found access denied
   after it *)
C23_Witness ==
    /\ response.op = "updateReminder"
    /\ response.status = "denied"
    /\ ~EnvelopeOk(response)
    /\ response.prior.op = "deleteReminder"
    /\ ~response.prior.ok
    /\ Len(reminders) = 2
    /\ reminders[1].title = StrA
    /\ ~reminders[1].isCompleted

(* A request that got no answer *)
C23_WitnessTimeout ==
    /\ response.op = "createList"
    /\ response.status = "notDetermined"
    /\ response.prompt = "timeout"
    /\ response.exit = 1

----------------------------------------------------------------------------
(* The order of the store's answer (SpecQuery) *)

(* The orders in which fetchReminders may get the reminders of the store *)
HandOverOrders ==
    LET n == Len(reminders)
        Perms == { p \in [1..n -> 1..n] : \A i, j \in 1..n : p[i] = p[j] => i = j }
    IN  { [i \in 1..n |-> reminders[p[i]]] : p \in Perms }

(* C24: a listReminders on the same reminders handed over in any other order
   returns the same total and the same sequence of records, also when two
   reminders have the same due date, modification date and name up to case;
   and sorting the sorted reminders again changes nothing. *)
C24_SortDeterministic ==
    /\ ListedOk =>
          \A rs \in HandOverOrders :
              operationListReminders(lists, rs, response.payload, FALSE).result
                = response.stdout.env.result
    /\ \A rs \in HandOverOrders :
          sortReminders(sortReminders(rs)) = sortReminders(rs)

(* Sorting is idempotent *)
C24_SortIdempotent ==
    \A rs \in HandOverOrders : sortReminders(sortReminders(rs)) = sortReminders(rs)

(* Without reminders that tie on all three keys, the order of the hand-over
   does not show *)
C24_DeterministicWithoutTies ==
    (/\ ListedOk
     /\ \A i, j \in 1..Len(reminders) :
           i # j => \/ areInIncreasingOrder(reminders[i], reminders[j])
                    \/ areInIncreasingOrder(reminders[j], reminders[i])) =>
        \A rs \in HandOverOrders :
            operationListReminders(lists, rs, response.payload, FALSE).result
              = response.stdout.env.result

----------------------------------------------------------------------------
(* The artifact at the helper binary path (SpecHelper) *)

(* C25: the helper binary path holds a complete artifact or nothing, also
   after a failed compile, and no call launches an artifact that is not
   complete: a later staleness check does not take a partial artifact as
   current. *)
C25_NoPartialArtifact ==
    /\ binary # Absent => Get(binary).complete
    /\ \A i \in CallIds :
          (calls[i].launched /\ calls[i].launchBinary # Absent) =>
              Get(calls[i].launchBinary).complete

(* What the check of build b saw: no artifact that can be stat'ed, or one
   older than the source *)
SawStale(b) == b.binaryStat = Absent \/ Get(b.binaryStat) < b.sourceStat

(* C26: a build goes on to compile exactly when its check found no artifact
   to stat or an artifact with a modification time older than the source's;
   when it found an artifact that is not older than the source it ends
   without a compile. *)
C26_CompileIffStale ==
    [][\A g \in 1..Len(build) :
          (build[g].pc \in {"rebuild", "current"} /\ build'[g].pc # build[g].pc) =>
              /\ build'[g].pc = "compile" <=> SawStale(build[g])
              /\ build'[g].pc = "resolved" <=> ~SawStale(build[g])]_vars

(* One check found an artifact as old as the source and ran no compile; a
   later one found the source newer and compiles *)
C26_Witness ==
    \E g, h \in 1..Len(build) :
        /\ build[g].pc = "resolved"
        /\ build[g].binaryStat = Some(build[g].sourceStat)
        /\ binary = CompiledBinary(0)
        /\ build[h].pc = "compile"
        /\ build[h].binaryStat # Absent

Settled(b) == b.pc \in {"resolved", "rejected"}

(* C27: buildPromise is null or the build in flight, never a build that has
   settled, whether it resolved or was rejected; the step in which a build
   settles leaves buildPromise null; and a call awaits a build that was in
   flight when the call was made or that the call started itself, which
   begins with its own check of the modification times. *)
C27_SettledBuildNotReused ==
    /\ [](/\ buildPromise # NoPromise => InFlight(build[buildPromise])
          /\ \A i \in CallIds :
                IF calls[i].inFlightAtCall # 0
                THEN calls[i].awaits = calls[i].inFlightAtCall
                ELSE calls[i].started)
    /\ [][/\ (\E g \in 1..Len(build) : InFlight(build[g]) /\ Settled(build'[g])) =>
                buildPromise' = NoPromise
          /\ (Len(calls') > Len(calls) /\ BuildsInFlight(build) = {}) =>
                /\ Len(build') = Len(build) + 1
                /\ build'[Len(build')].pc = "mkdir"
                /\ buildPromise' = Len(build')]_vars

(* After a build that failed, a second call has started a build of its own,
   and that build compiles *)
C27_Witness ==
    /\ Len(build) = 2
    /\ build[1].pc = "rejected"
    /\ build[2].pc = "compile"
    /\ buildPromise = 2
    /\ calls[2].started
    /\ calls[2].awaits = 2
    /\ calls[1].outcome = Threw(BuildError)

(* After a build that succeeded, a second call has made a check of its own *)
C27_WitnessResolved ==
    /\ Len(build) = 2
    /\ build[1].pc = "resolved"
    /\ build[2].pc \in {"rebuild", "current"}
    /\ calls[2].started

----------------------------------------------------------------------------
(* Due dates given twice (Spec) *)

BothDueDates(r) ==
    /\ r.op \in {"createReminder", "updateReminder"}
    /\ EnvelopeOk(r)
    /\ r.payload.dueDate # Absent
    /\ r.payload.allDayDueDate # Absent

(* C28: after a createReminder or updateReminder that succeeded with both
   dueDate and allDayDueDate, the reminder's due date components are those
   of the all-day value, year, month and day without a time, and the
   reminder's record has an allDayDueDate. *)
C28_AllDayWins ==
    [][BothDueDates(response') =>
          LET payload == response'.payload
              k == IF response'.op = "updateReminder" THEN UpdatedIndex(payload)
                   ELSE CHOOSE i \in 1..Len(reminders') :
                            reminders'[i].id = response'.stdout.env.result.id
              stored == reminders'[k]
          IN  /\ stored.dueDateComponents
                   = Some(dateComponentsFromAllDay(Get(payload.allDayDueDate)).result)
              /\ Get(stored.dueDateComponents).tod = Absent
              /\ isAllDayDueDate(stored)
              /\ mapReminder(lists', stored).allDayDueDate # Absent]_vars

(* A reminder was updated with both values, after another was created with
   both; each has the day of the all-day value as its due date components *)
C28_Witness ==
    /\ BothDueDates(response)
    /\ response.op = "updateReminder"
    /\ response.prior.op = "createReminder"
    /\ response.prior.ok
    /\ response.prior.payload.dueDate # Absent
    /\ response.prior.payload.allDayDueDate # Absent
    /\ \E k \in 1..Len(reminders) :
          /\ reminders[k].title = StrA
          /\ reminders[k].dueDateComponents = AllDay(0)
    /\ \E k \in 1..Len(reminders) :
          /\ reminders[k].title = StrSpaceA
          /\ reminders[k].dueDateComponents = AllDay(0)

----------------------------------------------------------------------------
(* Failures and the store (SpecAccess) *)

FailureEnvelope(r) == r.stdout.kind = "envelope" /\ ~r.stdout.env.ok

(* C29: an invocation that ends with a failure envelope leaves lists and
   reminders as they were, whatever failed: the list or the reminder not
   found, a date that does not parse, an empty name, a list name that exists,
   an operation the gateway does not know, a payload it cannot decode; also
   when the reminder object had been assigned to before the failing check. *)
C29_FailureLeavesStore ==
    [][FailureEnvelope(response') => (lists' = lists /\ reminders' = reminders)]_vars

(* An update that sets a new name and then fails on its due date: the
   reminder has its name as before *)
C29_Witness ==
    /\ response.op = "updateReminder"
    /\ FailureEnvelope(response)
    /\ response.payload # Undecodable
    /\ response.payload.newName = Some(StrB)
    /\ EnvelopeError(response) = "Invalid ISO 8601 date"
    /\ \E k \in 1..Len(reminders) :
          reminders[k].title = StrA /\ reminders[k].calendar = WorkId
    /\ \A k \in 1..Len(reminders) : reminders[k].title # StrB

(* The kinds of failure that occur *)
C29_WitnessUnsupported ==
    response.op = "renameList" /\ EnvelopeError(response) = "Unsupported operation"

C29_WitnessUndecodable ==
    response.payload = Undecodable /\ EnvelopeError(response) = "DecodingError"

C29_WitnessDuplicateList ==
    response.op = "createList" /\ EnvelopeError(response) = "List already exists"

C29_WitnessEmptyName ==
    response.op = "createReminder"
      /\ EnvelopeError(response) = "Reminder name cannot be empty"

C29_WitnessNotFound ==
    /\ response.op = "deleteReminder"
    /\ EnvelopeError(response) = "Reminder not found in list"
    /\ Len(reminders) > 0

----------------------------------------------------------------------------
(* Names of the stored reminders (Spec) *)

NameMax == 500
BodyMax == 5000

(* CreateReminderSchema: name of 1 to 500 characters, listName of at least
   one, body of at most 5000, priority 0 to 9 *)
CreateReminderSchema(p) ==
    /\ Len(p.name) >= 1 /\ Len(p.name) <= NameMax
    /\ p.listName # ""
    /\ p.body = Absent \/ Len(Get(p.body)) <= BodyMax
    /\ p.priority = Absent \/ Get(p.priority) \in 0..9

(* UpdateReminderSchema: listName and reminderName of at least one
   character; newName of at most 500, with no least length *)
UpdateReminderSchema(p) ==
    /\ p.listName # ""
    /\ Len(p.reminderName) >= 1
    /\ p.newName = Absent \/ Len(Get(p.newName)) <= NameMax
    /\ p.body = Absent \/ Len(Get(p.body)) <= BodyMax
    /\ p.priority = Absent \/ Get(p.priority) \in 0..9

(* A createReminder or updateReminder that the tool's schema lets through
   and the gateway answers with a success envelope *)
Accepted(r) ==
    /\ EnvelopeOk(r)
    /\ \/ r.op = "createReminder" /\ CreateReminderSchema(r.payload)
       \/ r.op = "updateReminder" /\ UpdateReminderSchema(r.payload)

NamesNotEmpty(rs) ==
    \A k \in 1..Len(rs) : trimmingCharacters(rs[k].title) # StrEmpty

(* C30: by the claim, an accepted createReminder or updateReminder on a
   store in which every reminder has a name with a visible character leaves
   such a store: no reminder is created with, or renamed to, an empty or
   whitespace-only name. *)
C30_StoredNamesNotEmpty ==
    [][(Accepted(response') /\ NamesNotEmpty(reminders)) => NamesNotEmpty(reminders')]_vars

(* The half that holds: createReminder *)
C30_CreatedNamesNotEmpty ==
    [][(Accepted(response') /\ response'.op = "createReminder"
          /\ NamesNotEmpty(reminders)) => NamesNotEmpty(reminders')]_vars

====
